---- MODULE Spec2Model ----
(***************************************************************************)
(* Model of the hierarchical compression engine of Data_Forge:             *)
(*   chunking/enhanced_chunker.py        EnhancedSmartChunker              *)
(*   summarizer/enhanced_ai_summarizer.py EnhancedAISummarizer             *)
(*   hierarchical_compressor.py          HierarchicalCompressor            *)
(*                                                                         *)
(* Representation of strings.                                              *)
(* A text is a sequence of segments.  A segment is a run of words that no  *)
(* sentence split divides; the field sep tells what follows it in the      *)
(* string:                                                                 *)
(*   "delim"  the sentence delimiter of _extractive_summarize followed by  *)
(*            white space.  The pattern is the raw string                  *)
(*            (?<=[.!?])\\s+ , which matches a backslash and one or more   *)
(*            letters s right after a sentence-final mark;                 *)
(*   "glue"   the same delimiter followed directly by the next word, so    *)
(*            that str.split() sees one word where the sentence split sees *)
(*            the last word of one sentence and the first of the next;     *)
(*   "space"  white space (also the value for the last segment).           *)
(* w is len(segment.split()), tok the number of tokens the raw pattern     *)
(* \\w+ finds in the segment, crit whether a pattern of critical_patterns  *)
(* matches in it, snips the context snippets _extract_critical_info cuts   *)
(* around those matches, dot whether the segment ends with a full stop.    *)
(* Segment contents are pairwise different strings, none a substring of    *)
(* another, and a word has five characters.                                *)
(*                                                                         *)
(* Floats: ratios are kept as exact fractions [num, den]; confidences are  *)
(* integers in units of 1/ConfOne.                                         *)
(***************************************************************************)
EXTENDS Integers, Sequences, FiniteSets, TLC

VARIABLES
    pc,                     \* position in compress_document / chunk_document
    raised,                 \* the exception that ended the call, or None
    document_data,          \* self.document_data
    config,                 \* the merged configuration of compress_document
    pi,                     \* index of the page the chunker is at
    ki,                     \* index of the paragraph the chunker is at
    buffer,                 \* chunk_document's local buffer
    chunk_id,               \* chunk_document's local chunk_id
    current_section,        \* chunk_document's local current_section
    current_header_level,   \* chunk_document's local current_header_level
    chunks,                 \* chunk_document's local list chunks
    self_chunks,            \* self.chunks
    chunk_summaries,        \* self.chunk_summaries
    section_summaries,      \* self.section_summaries
    document_summary,       \* self.document_summary
    report,                 \* self.report
    invoked,                \* summarization routines invoked so far
    arg,                    \* argument of a single call under test
    ret,                    \* its return value
    run,                    \* number of the compress_document call in progress
    stamp                   \* for each field of the compressor, the call that set it

vars == <<pc, raised, document_data, config, pi, ki, buffer, chunk_id,
          current_section, current_header_level, chunks, self_chunks,
          chunk_summaries, section_summaries, document_summary, report,
          invoked, arg, ret, run, stamp>>

None == "None"

\* a local that was not assigned yet
Unbound == [unbound |-> TRUE]

\* self.document_data before load
NoDocument == [none |-> TRUE]

IsLoaded(data) == "pages" \in DOMAIN data

Max(a, b) == IF a >= b THEN a ELSE b

Min(a, b) == IF a <= b THEN a ELSE b

(***************************************************************************)
(* Bounds of the model.                                                    *)
(***************************************************************************)
MaxSents == 8

(***************************************************************************)
(* Fractions and confidences.                                              *)
(***************************************************************************)
\* low: the integers n for which the double product n * (num/den) is rounded
\* just below the integer n * num / den, so that int() yields one less
Rat(n, d) == [num |-> n, den |-> d, low |-> {}]

RatLeq(a, b) == a.num * b.den <= b.num * a.den

RatLt(a, b) == a.num * b.den < b.num * a.den

RatEq(a, b) == a.num * b.den = b.num * a.den

\* 1.0 in confidence units; every k in 1..10 divides 3 * ConfOne \div 10.
ConfOne == 2520 * 10

(***************************************************************************)
(* Strings.                                                                *)
(***************************************************************************)
RECURSIVE SumW(_)
SumW(text) == IF text = <<>> THEN 0 ELSE Head(text).w + SumW(Tail(text))

\* len(text.split())
Words(text) ==
    SumW(text) - Cardinality({i \in 1..(Len(text) - 1) : text[i].sep = "glue"})

\* " ".join(texts) of the segments of one text: every separator becomes a
\* space; white space that ends the last text stays
Spaced(text) ==
    [i \in 1..Len(text) |->
        IF i = Len(text) /\ text[i].sep = "trail" THEN text[i]
        ELSE [text[i] EXCEPT !.sep = "space"]]

Ids(text) == {text[i].id : i \in 1..Len(text)}

\* len(s) for a string of n words
CharLen(n) == IF n = 0 THEN 0 ELSE 6 * n - 1

(***************************************************************************)
(* _extractive_summarize                                                    *)
(***************************************************************************)
\* int(n * ratio) + 1
IntMulAbove(n, ratio) == ((n * ratio.num) \div ratio.den) + 1

\* int(n * ratio)
IntMul(n, ratio) ==
    ((n * ratio.num) \div ratio.den) - (IF n \in ratio.low THEN 1 ELSE 0)

\* the double 0.35 times n is below the integer 0.35 n for these n < 1000
Ratio035 == [num |-> 35, den |-> 100, low |-> {180, 340, 360, 660, 680, 700, 720}]

RECURSIVE SplitFrom(_, _, _)
SplitFrom(text, i, cur) ==
    IF i > Len(text) THEN <<cur>>
    ELSE LET c == Append(cur, text[i])
         IN  IF i < Len(text) /\ text[i].sep \in {"delim", "glue"}
             THEN <<c>> \o SplitFrom(text, i + 1, <<>>)
             ELSE SplitFrom(text, i + 1, c)

\* re.split(r'(?<=[.!?])\\s+', text): each sentence is a sequence of segments
Sentences(text) == SplitFrom(text, 1, <<>>)

RECURSIVE SumTok(_)
SumTok(text) == IF text = <<>> THEN 0 ELSE Head(text).tok + SumTok(Tail(text))

\* the score of one sentence: the frequency in the text of each of its tokens,
\* tripled when a critical pattern matches in the sentence
Score(sent, text) ==
    LET s == SumTok(sent) * SumTok(text)
    IN  IF \E i \in 1..Len(sent) : sent[i].crit THEN 3 * s ELSE s

\* list.sort(key=..., reverse=True) and list.sort(key=...) are stable: the
\* indices of keys, by key (descending when desc), ties in list order
SortedIdx(keys, desc) ==
    LET n == Len(keys)
        Before(j, i) ==
            \/ (IF desc THEN keys[j] > keys[i] ELSE keys[j] < keys[i])
            \/ (keys[j] = keys[i] /\ j < i)
        Rank(i) == 1 + Cardinality({j \in 1..n : Before(j, i)})
    IN  [r \in 1..n |-> CHOOSE i \in 1..n : Rank(i) = r]

\* the loop of lines 370-373 without its word budget
RECURSIVE SelectLoopNoBudget(_, _, _, _, _, _, _)
SelectLoopNoBudget(sents, order, k, selected, current_words, target_words, target_sentences) ==
    IF k > Len(order) THEN selected
    ELSE IF Len(selected) < target_sentences
         THEN SelectLoopNoBudget(sents, order, k + 1, Append(selected, order[k]),
                                 current_words, target_words, target_sentences)
         ELSE SelectLoopNoBudget(sents, order, k + 1, selected, current_words,
                                 target_words, target_sentences)

\* the loop of lines 370-373 over the sentences in score order
RECURSIVE SelectLoop(_, _, _, _, _, _, _)
SelectLoop(sents, order, k, selected, current_words, target_words, target_sentences) ==
    IF k > Len(order) THEN selected
    ELSE LET word_count == SumW(sents[order[k]])
         IN  IF /\ current_words + word_count <= target_words
                /\ Len(selected) < target_sentences
             THEN SelectLoop(sents, order, k + 1, Append(selected, order[k]),
                             current_words + word_count, target_words, target_sentences)
             ELSE SelectLoop(sents, order, k + 1, selected, current_words,
                             target_words, target_sentences)

\* text.find(s) for sentence i: the first sentence with the same content
FindPos(sents, i) ==
    CHOOSE j \in 1..Len(sents) :
        /\ [x \in 1..Len(sents[j]) |-> sents[j][x].id] = [x \in 1..Len(sents[i]) |-> sents[i][x].id]
        /\ \A h \in 1..(j - 1) :
              [x \in 1..Len(sents[h]) |-> sents[h][x].id] # [x \in 1..Len(sents[i]) |-> sents[i][x].id]

RECURSIVE Flatten(_)
Flatten(ss) == IF ss = <<>> THEN <<>> ELSE Head(ss) \o Flatten(Tail(ss))

\* selected.sort(key=lambda s: text.find(s)); " ".join(selected)
JoinSelected(sents, selected) ==
    LET keys == [k \in 1..Len(selected) |-> FindPos(sents, selected[k])]
        ord  == SortedIdx(keys, FALSE)
    IN  Spaced(Flatten([k \in 1..Len(selected) |-> sents[selected[ord[k]]]]))

_extractive_summarize(text, ratio) ==
    LET sentences == Sentences(text)
        n == Len(sentences)
    IN  IF n <= 3 THEN text
        ELSE
        LET target_sentences == Max(1, IntMul(n, ratio))
            target_words == IntMul(Words(text), ratio)
            scores == SortedIdx([i \in 1..n |-> Score(sentences[i], text)], TRUE)
            selected == SelectLoop(sentences, scores, 1, <<>>, 0, target_words, target_sentences)
            summary == JoinSelected(sentences, selected)
            forced_count == Max(1, IntMul(n, Rat(1, 4)))
        IN  IF Words(summary) >= Words(text)
            THEN JoinSelected(sentences, SubSeq(scores, 1, forced_count))
            ELSE summary

(***************************************************************************)
(* summarize_chunk and its helpers                                         *)
(***************************************************************************)
EXTRACTIVE == "extractive"

ABSTRACTIVE == "abstractive"

HYBRID == "hybrid"

CRITICAL_PRESERVING == "critical"

SummaryStrategy == {EXTRACTIVE, ABSTRACTIVE, HYBRID, CRITICAL_PRESERVING}

RECURSIVE AllSnips(_)
AllSnips(text) == IF text = <<>> THEN <<>> ELSE Head(text).snips \o AllSnips(Tail(text))

\* the contexts of the pattern matches, without duplicates, at most 10
_extract_critical_info(text) ==
    LET critical == AllSnips(text)
    IN  SubSeq(critical, 1, Min(10, Len(critical)))

\* the segment a snippet becomes when it is appended to a summary
SnipSeg(info) ==
    [id |-> <<info.seg[1], info.seg[2], 1>>, w |-> info.w, tok |-> 0, crit |-> TRUE,
     snips |-> <<>>, sep |-> "space", dot |-> FALSE]

\* info in summary: the snippet lies in its home segment, or runs over the
\* delimiter that follows it
InText(info, summary) ==
    \E i \in 1..Len(summary) :
        /\ summary[i].id = info.seg
        /\ info.whole \/ (i < Len(summary) /\ summary[i].sep # "space")

RECURSIVE AppendCritical(_, _, _)
AppendCritical(summary, infos, k) ==
    IF k > Len(infos) THEN summary
    ELSE IF ~InText(infos[k], summary) /\ CharLen(infos[k].w) > 10
         THEN AppendCritical(Append(summary, SnipSeg(infos[k])), infos, k + 1)
         ELSE AppendCritical(summary, infos, k + 1)

_critical_preserving_summarize(text, critical_info) ==
    LET summary == AppendCritical(_extractive_summarize(text, Rat(2, 5)),
                                  SubSeq(critical_info, 1, Min(3, Len(critical_info))), 1)
    IN  IF 5 * Words(summary) > 4 * Words(text)
        THEN _extractive_summarize(text, Rat(3, 10))
        ELSE summary

\* what the generator of the abstractive strategy does in this process:
\*   "ImportError"  transformers is not installed: _load_model falls back
\*   "LoadError"    from_pretrained raises something else
\*   "InferError"   tokenizer or generate raises
\*   "ok"           the model decodes a summary of GenWords words
ModelEnv == {"ImportError", "LoadError", "InferError", "ok"}

GenWords == 40

GenText == <<[id |-> <<0, 0, 2>>, w |-> GenWords, tok |-> 0, crit |-> FALSE,
              snips |-> <<>>, sep |-> "space", dot |-> TRUE]>>

\* returns the summary, or the exception that leaves the routine
_abstractive_summarize(text, env) ==
    CASE env = "ImportError" -> [raised |-> None, text |-> _extractive_summarize(text, Ratio035)]
      [] env = "LoadError"   -> [raised |-> "OSError", text |-> <<>>]
      [] env = "InferError"  -> [raised |-> None, text |-> _extractive_summarize(text, Ratio035)]
      [] OTHER               -> [raised |-> None, text |-> GenText]

\* any(term in summary for term in key_terms): the numeric key term of a
\* snippet lies in its home segment and in the snippet itself
TermIn(info, summary) ==
    /\ info.key
    /\ \E i \in 1..Len(summary) :
          summary[i].id = info.seg \/ summary[i].id = SnipSeg(info).id

Unclamped(x) == x

\* max(0.0, min(1.0, x))
Clamp01(x) == Max(0, Min(ConfOne, x))

\* the value before the clamp of line 477
ConfidenceRaw(original, summary, critical_info) ==
    LET orig_words == Words(original)
        sum_words == Words(summary)
        ratio == IF orig_words > 0 THEN Rat(sum_words, orig_words) ELSE Rat(0, 1)
        band == IF RatLeq(Rat(15, 100), ratio) /\ RatLeq(ratio, Rat(4, 10))
                THEN (3 * ConfOne) \div 10
                ELSE IF RatLt(Rat(1, 2), ratio) THEN 0 - ((2 * ConfOne) \div 10)
                ELSE IF RatLt(ratio, Rat(1, 10)) THEN ConfOne \div 10
                ELSE 0
        preserved == Cardinality({k \in 1..Len(critical_info) : TermIn(critical_info[k], summary)})
        keep == IF Len(critical_info) > 0
                THEN (preserved * ((3 * ConfOne) \div 10)) \div Len(critical_info)
                ELSE 0
    IN  (ConfOne \div 2) + band + keep

\* lines 453-477 starting from 0.0 in place of 0.5
ConfidenceWithoutBase(original, summary, critical_info) ==
    Clamp01(ConfidenceRaw(original, summary, critical_info) - (ConfOne \div 2))

_calculate_confidence(original, summary, critical_info) ==
    Clamp01(ConfidenceRaw(original, summary, critical_info))

\* lines 140-149 with the last branch leaving the caller's strategy in place
ForcedStrategyKeepsDefault(chunk, strategy, word_count) ==
    IF word_count < 200 THEN EXTRACTIVE
    ELSE IF chunk.chunk_type = "critical" \/ chunk.contains_exceptions
         THEN CRITICAL_PRESERVING
         ELSE strategy

\* lines 140-149: the strategy is decided by the chunk, not by the caller
ForcedStrategy(chunk, strategy, word_count) ==
    IF word_count < 200 THEN EXTRACTIVE
    ELSE IF chunk.chunk_type = "critical" \/ chunk.contains_exceptions
         THEN CRITICAL_PRESERVING
         ELSE EXTRACTIVE

\* lines 152-159: the routine that is run for a strategy
Routine(strategy) ==
    CASE strategy = EXTRACTIVE -> "_extractive_summarize"
      [] strategy = ABSTRACTIVE -> "_abstractive_summarize"
      [] strategy = CRITICAL_PRESERVING -> "_critical_preserving_summarize"
      [] OTHER -> "_extractive_summarize"

Generate(strategy, text, critical_info, env) ==
    CASE Routine(strategy) = "_abstractive_summarize" -> _abstractive_summarize(text, env)
      [] Routine(strategy) = "_critical_preserving_summarize" ->
            [raised |-> None, text |-> _critical_preserving_summarize(text, critical_info)]
      [] OTHER -> [raised |-> None, text |-> _extractive_summarize(text, Ratio035)]

\* lines 161-166: the check against expansion
SafetyCheck(text, summary) ==
    IF Words(summary) >= Words(text)
    THEN _extractive_summarize(text, Rat(1, 4))
    ELSE summary

\* line 120 with the threshold of the forced-extractive branch
IsPassThroughBelow20(word_count) == word_count < 20

\* line 120: short chunks are returned as they are
IsPassThrough(word_count) == word_count < 50

\* summarize_chunk(chunk, strategy) of a summarizer whose generator behaves as
\* env; the result carries raised # None when an exception leaves the call
summarize_chunk(chunk, strategy0, env) ==
    LET text == chunk.text
        word_count == Words(text)
    IN  IF IsPassThrough(word_count)
        THEN [raised |-> None, summary_text |-> text, original_words |-> word_count,
              summary_words |-> word_count, compression_ratio |-> Rat(1, 1),
              strategy |-> strategy0, source_chunks |-> <<chunk.chunk_id>>,
              source_pages |-> <<chunk.page_number>>, confidence |-> ConfOne,
              preserved_critical |-> <<>>, level |-> "chunk",
              section_id |-> chunk.section_id]
        ELSE
        LET critical_info == _extract_critical_info(text)
            strategy == ForcedStrategy(chunk, strategy0, word_count)
            gen == Generate(strategy, text, critical_info, env)
            summary == SafetyCheck(text, gen.text)
        IN  [raised |-> gen.raised, summary_text |-> summary, original_words |-> word_count,
             summary_words |-> Words(summary),
             compression_ratio |-> Rat(Words(summary), word_count),
             strategy |-> strategy, source_chunks |-> <<chunk.chunk_id>>,
             source_pages |-> <<chunk.page_number>>,
             confidence |-> _calculate_confidence(text, summary, critical_info),
             preserved_critical |-> critical_info, level |-> "chunk",
             section_id |-> chunk.section_id]

\* the routines summarize_chunk runs for a chunk
RoutinesRun(chunk, strategy0) ==
    IF IsPassThrough(Words(chunk.text)) THEN {}
    ELSE {Routine(ForcedStrategy(chunk, strategy0, Words(chunk.text)))}

(***************************************************************************)
(* Input texts.  MakeText(k, W, n, layout, hot, sk, lastdot) is a text of  *)
(* W words in n sentences whose segments are numbered <<k, i, 0>>:         *)
(*   layout "even"   sentences of equal length, delimiters before a space  *)
(*          "glued"  the same with every delimiter inside a word           *)
(*          "front"  one long sentence followed by one-word sentences      *)
(*          "gluedfront"  the same with every delimiter inside a word      *)
(*   hot     the sentences that hold a token of \\w+ and a critical match  *)
(*   sk      the kind of snippet each critical match yields                *)
(*   lastdot whether the text ends with a full stop                        *)
(***************************************************************************)
Layouts == {"even", "glued", "front", "gluedfront"}

WholeSnippet == [w |-> 16, whole |-> TRUE, key |-> TRUE]

SplitSnippet == [w |-> 16, whole |-> FALSE, key |-> FALSE]

SnippetKinds == {WholeSnippet, SplitSnippet}

HotChoices(n) == {{}} \cup {{i} : i \in 1..n} \cup {1..n}

MakeText(k, W, n, layout, hot, sk, lastdot) ==
    LET glued == layout \in {"glued", "gluedfront"}
        total == W + (IF glued THEN n - 1 ELSE 0)
        each == total \div n
        wd(i) == IF layout \in {"front", "gluedfront"}
                 THEN (IF i = 1 THEN total - (n - 1) ELSE 1)
                 ELSE (IF i < n THEN each ELSE total - (n - 1) * each)
        snip(i) == [seg |-> <<k, i, 0>>, w |-> Min(sk.w, wd(i)),
                    whole |-> sk.whole \/ i = n, key |-> sk.key]
    IN  [i \in 1..n |->
            [id |-> <<k, i, 0>>, w |-> wd(i),
             tok |-> IF i \in hot THEN 1 ELSE 0,
             crit |-> i \in hot,
             snips |-> IF i \in hot THEN <<snip(i)>> ELSE <<>>,
             sep |-> IF i = n THEN "space" ELSE IF glued THEN "glue" ELSE "delim",
             dot |-> (i < n) \/ lastdot]]

(***************************************************************************)
(* SpecSum: one call of summarize_chunk on an arbitrary chunk dictionary.  *)
(***************************************************************************)
SumWordChoices == {10, 49, 50, 199, 200, 400}

SumTexts ==
    UNION {{MakeText(0, W, n, layout, hot, sk, TRUE) :
                W \in SumWordChoices, layout \in Layouts,
                hot \in HotChoices(n), sk \in SnippetKinds} : n \in 1..MaxSents}

SumEnvs == {"ImportError", "ok"}

SumChunks ==
    {[text |-> t, chunk_id |-> 0, page_number |-> 1, chunk_type |-> ty,
      section_id |-> None, contains_exceptions |-> ex] :
        t \in SumTexts, ty \in {"standard", "critical", "header"}, ex \in BOOLEAN}

\* the fields of the compressor, none set by any call yet
NoStamp ==
    [document_data |-> 0, chunks |-> 0, chunk_summaries |-> 0, section_summaries |-> 0,
     document_summary |-> 0, report |-> 0]

Idle ==
    /\ raised = None
    /\ run = 1 /\ stamp = NoStamp
    /\ pi = 0 /\ ki = 0 /\ buffer = Unbound /\ chunk_id = 0
    /\ current_section = None /\ current_header_level = 0 /\ chunks = <<>>
    /\ self_chunks = None /\ chunk_summaries = None /\ section_summaries = None
    /\ document_summary = None /\ report = None /\ invoked = {}

InitSum ==
    /\ Idle
    /\ document_data = NoDocument
    /\ config = None
    /\ pc = "summarize_chunk"
    /\ arg \in [chunk : SumChunks, strategy : SummaryStrategy]
    /\ ret = None

SummarizeCall ==
    /\ pc = "summarize_chunk"
    /\ \E env \in SumEnvs :
          ret' = summarize_chunk(arg.chunk, arg.strategy, env)
    /\ invoked' = RoutinesRun(arg.chunk, arg.strategy)
    /\ pc' = "returned"
    /\ UNCHANGED <<raised, document_data, config, pi, ki, buffer, chunk_id,
                   current_section, current_header_level, chunks, self_chunks,
                   chunk_summaries, section_summaries, document_summary, report, arg,
                   run, stamp>>

NextSum == SummarizeCall

SpecSum == InitSum /\ [][NextSum]_vars

\* the texts of SumTexts with whole snippets, and those of four sentences
\* or more with sentence 4 replaced by a second copy of sentence 2
ExtTexts ==
    LET plain == UNION {{MakeText(0, W, n, layout, hot, WholeSnippet, TRUE) :
                            W \in {10, 50, 400}, layout \in Layouts,
                            hot \in HotChoices(n)} : n \in 1..MaxSents}
        Repeat(text, i, j) ==
            [text EXCEPT ![j] = [text[i] EXCEPT !.sep = text[j].sep, !.dot = text[j].dot]]
    IN  plain \cup {Repeat(t, 2, 4) : t \in {u \in plain : Len(u) >= 4}}

\* one direct call of _extractive_summarize, with a ratio its callers pass
InitExt ==
    /\ Idle
    /\ document_data = NoDocument
    /\ config = None
    /\ pc = "_extractive_summarize"
    /\ arg \in [text : ExtTexts,
                 ratio : {Rat(1, 4), Rat(3, 10), Ratio035, Rat(2, 5), Rat(9, 10)}]
    /\ ret = None

\* lines 338-385
ExtractiveCall ==
    /\ pc = "_extractive_summarize"
    /\ ret' = _extractive_summarize(arg.text, arg.ratio)
    /\ invoked' = {"_extractive_summarize"}
    /\ pc' = "returned"
    /\ UNCHANGED <<raised, document_data, config, pi, ki, buffer, chunk_id,
                   current_section, current_header_level, chunks, self_chunks,
                   chunk_summaries, section_summaries, document_summary, report, arg,
                   run, stamp>>

NextExt == ExtractiveCall

SpecExt == InitExt /\ [][NextExt]_vars

\* one direct call of _abstractive_summarize on a fresh summarizer
\* (self.model is None); arg.model is what the generator does in the process
InitAbs ==
    /\ Idle
    /\ document_data = NoDocument
    /\ config = None
    /\ pc = "_abstractive_summarize"
    /\ arg \in [text : SumTexts, model : ModelEnv]
    /\ ret = None

\* lines 387-424: the routine returns a summary or is left by the exception
\* of _load_model
AbstractiveCall ==
    /\ pc = "_abstractive_summarize"
    /\ \E gen \in {_abstractive_summarize(arg.text, arg.model)} :
          /\ raised' = gen.raised
          /\ ret' = IF gen.raised = None THEN gen.text ELSE None
          /\ pc' = IF gen.raised = None THEN "returned" ELSE "failed"
    /\ invoked' = {"_abstractive_summarize"}
    /\ UNCHANGED <<document_data, config, pi, ki, buffer, chunk_id,
                   current_section, current_header_level, chunks, self_chunks,
                   chunk_summaries, section_summaries, document_summary, report, arg,
                   run, stamp>>

NextAbs == AbstractiveCall

SpecAbs == InitAbs /\ [][NextAbs]_vars

(***************************************************************************)
(* EnhancedSmartChunker.                                                   *)
(* A paragraph is what _split_into_paragraphs returns, kept as a record:   *)
(* w its number of words, form the shape of its first line ("section" for  *)
(* SECTION/APPENDIX/CHAPTER n, "subsection" for n.n, "caps" for a line in  *)
(* capitals, "hash" and "hash2" for # and ##, "plain" otherwise), sid the   *)
(* captured section number, and one flag for each pattern of the chunker   *)
(* that matches in it (spec: the has_specifics test of                     *)
(* _is_critical_content).  The matches sit in the first words of a         *)
(* paragraph and none runs over a paragraph boundary.  n and hot give the  *)
(* sentences of the paragraph as in MakeText.                              *)
(* The buffer is the record of the text, the words and the flags of the    *)
(* string, with the paragraphs it was built from; Unbound is the local     *)
(* before assignment.                                                      *)
(***************************************************************************)
EmptyBuffer ==
    [w |-> 0, exc |-> FALSE, risk |-> FALSE, contra |-> FALSE, num |-> FALSE,
     date |-> FALSE, spec |-> FALSE, parts |-> <<>>, text |-> <<>>]

\* the segments of the paragraph idx of page
ParaText(para, page, idx) ==
    MakeText(<<page, idx>>, para.w, para.n, "even", para.hot, WholeSnippet, TRUE)

\* the string of one paragraph
ParaBuffer(para, page, idx) ==
    [w |-> para.w, exc |-> para.exc, risk |-> para.risk, contra |-> para.contra,
     num |-> para.num, date |-> para.date, spec |-> para.spec,
     parts |-> <<[kind |-> "para", page |-> page, idx |-> idx, w |-> para.w]>>,
     text |-> ParaText(para, page, idx)]

\* a + "\n" + b
Joined(a, b) ==
    [w |-> a.w + b.w, exc |-> a.exc \/ b.exc, risk |-> a.risk \/ b.risk,
     contra |-> a.contra \/ b.contra, num |-> a.num \/ b.num,
     date |-> a.date \/ b.date, spec |-> a.spec \/ b.spec,
     parts |-> a.parts \o b.parts,
     text |-> a.text \o b.text]

\* bool(buffer)
Truthy(buf) == buf.parts # <<>>

_classify_header(para) ==
    CASE para.form = "section" -> <<1, para.sid>>
      [] para.form = "subsection" -> <<2, para.sid>>
      [] para.form = "caps" /\ 10 < CharLen(para.w) /\ CharLen(para.w) < 150 /\ para.w < 15 ->
            <<2, None>>
      [] para.form = "hash" /\ CharLen(para.w) < 150 -> <<2, None>>
      [] para.form = "hash2" /\ CharLen(para.w) < 150 -> <<3, None>>
      [] OTHER -> <<0, None>>

_is_critical_content(buf) ==
    (buf.exc \/ buf.risk \/ buf.contra) /\ buf.w > 15 /\ buf.spec

_create_chunk(id, buf, page_num, section_id, header_level) ==
    [chunk_id |-> id,
     text |-> buf.text,
     word_count |-> buf.w,
     page_number |-> page_num,
     chunk_type |-> IF header_level > 0 THEN "header"
                    ELSE IF _is_critical_content(buf) /\ buf.w > 20 THEN "critical"
                    ELSE "standard",
     section_id |-> section_id,
     parent_chunk_id |-> None,
     header_level |-> header_level,
     contains_numbers |-> buf.num,
     contains_dates |-> buf.date,
     contains_exceptions |-> buf.exc,
     contains_risks |-> buf.risk,
     contains_contradictions |-> buf.contra,
     parts |-> buf.parts]

\* the flags of the last n words of a buffer: those of the paragraphs that lie
\* wholly within them
RECURSIVE TailOf(_, _)
TailOf(parts, n) ==
    IF parts = <<>> \/ n <= 0 THEN <<>>
    ELSE LET last == parts[Len(parts)]
         IN  IF last.w <= n
             THEN Append(TailOf(SubSeq(parts, 1, Len(parts) - 1), n - last.w), last)
             ELSE <<>>

\* the last n words of text.split(): a part of one segment, then whole ones
RECURSIVE TailWords(_, _)
TailWords(text, n) ==
    IF text = <<>> \/ n <= 0 THEN <<>>
    ELSE LET l == text[Len(text)]
             init == SubSeq(text, 1, Len(text) - 1)
             shared == IF init # <<>> /\ init[Len(init)].sep = "glue" THEN 1 ELSE 0
         IN  IF l.w <= n
             THEN Append(TailWords(init, n - l.w + shared), l)
             ELSE <<[l EXCEPT !.id = <<l.id[1], l.id[2], 5>>, !.w = n, !.tok = 0,
                              !.crit = FALSE, !.snips = <<>>]>>

\* _get_overlap_text returning "" for every text
NoOverlapText(buf, pages, overlap_words) == EmptyBuffer

\* _get_overlap_text(text): "" or " ".join(words[-overlap_words:]), which is
\* every word, with every match of the text, when overlap_words is 0
_get_overlap_text(buf, pages, overlap_words) ==
    IF buf.w <= overlap_words THEN EmptyBuffer
    ELSE LET n == IF overlap_words = 0 THEN buf.w ELSE overlap_words
             whole == {q \in 1..Len(TailOf(buf.parts, n)) : TailOf(buf.parts, n)[q].kind = "para"}
             P(q) == pages[TailOf(buf.parts, n)[q].page].paras[TailOf(buf.parts, n)[q].idx]
         IN  [w |-> n,
              exc |-> IF n = buf.w THEN buf.exc ELSE \E q \in whole : P(q).exc,
              risk |-> IF n = buf.w THEN buf.risk ELSE \E q \in whole : P(q).risk,
              contra |-> IF n = buf.w THEN buf.contra ELSE \E q \in whole : P(q).contra,
              num |-> IF n = buf.w THEN buf.num ELSE \E q \in whole : P(q).num,
              date |-> IF n = buf.w THEN buf.date ELSE \E q \in whole : P(q).date,
              spec |-> IF n = buf.w THEN buf.spec ELSE \E q \in whole : P(q).spec,
              parts |-> <<[kind |-> "overlap", page |-> 0, idx |-> 0, w |-> n]>>,
              text |-> TailWords(buf.text, n)]

\* the first header chunk of the section before position i, or None
FirstHeaderBefore(cs, i) ==
    LET hs == {j \in 1..(i - 1) :
                  cs[j].section_id = cs[i].section_id /\ cs[j].chunk_type = "header"}
    IN  IF hs = {} THEN None ELSE cs[CHOOSE j \in hs : \A h \in hs : j <= h].chunk_id

\* the most recent header chunk of the section before position i, or None
HeaderBefore(cs, i) ==
    LET hs == {j \in 1..(i - 1) :
                  cs[j].section_id = cs[i].section_id /\ cs[j].chunk_type = "header"}
    IN  IF hs = {} THEN None ELSE cs[CHOOSE j \in hs : \A h \in hs : h <= j].chunk_id

_link_chunks(cs) ==
    [i \in 1..Len(cs) |->
        IF /\ cs[i].section_id # None
           /\ cs[i].chunk_type # "header"
           /\ cs[i].header_level = 0
        THEN [cs[i] EXCEPT !.parent_chunk_id = HeaderBefore(cs, i)]
        ELSE cs[i]]

Pages == document_data.pages

SameId(id) == id

\* chunk_id += 1
NextId(id) == id + 1

ChunkerVars == <<pi, ki, buffer, chunk_id, current_section, current_header_level, chunks>>

Rest == <<document_data, config, chunk_summaries, section_summaries,
          document_summary, report, invoked, arg, ret, run>>

\* lines 75-85
ChunkerEnter ==
    /\ pc = "chunk_document"
    /\ chunks' = <<>>
    /\ chunk_id' = 0
    /\ current_section' = None
    /\ buffer' = Unbound
    /\ current_header_level' = 0
    /\ pi' = 1
    /\ ki' = 0
    /\ pc' = "page"
    /\ UNCHANGED <<raised, self_chunks>>
    /\ UNCHANGED Rest
    /\ UNCHANGED stamp

\* lines 87-94
PageBegin ==
    /\ pc = "page"
    /\ pi <= Len(Pages)
    /\ buffer' = EmptyBuffer
    /\ current_header_level' = 0
    /\ ki' = 1
    /\ pc' = "para"
    /\ UNCHANGED <<pi, chunk_id, current_section, chunks, raised, self_chunks>>
    /\ UNCHANGED Rest
    /\ UNCHANGED stamp

\* line 110 with the threshold of the page end (line 148)
FlushAtHeaderFrom30(buf, min_words) == Truthy(buf) /\ buf.w >= 30

\* line 110: buffer and len(buffer.split()) >= self.min_words
FlushAtHeader(buf, min_words) == Truthy(buf) /\ buf.w >= min_words

\* lines 103-125: a header paragraph
HeaderParagraph ==
    /\ pc = "para"
    /\ ki <= Len(Pages[pi].paras)
    /\ LET para == Pages[pi].paras[ki]
           header_level == _classify_header(para)[1]
           section_id == _classify_header(para)[2]
           section == IF section_id # None THEN section_id ELSE current_section
           flush == FlushAtHeader(buffer, config.min_words)
           flushed == IF flush
                      THEN Append(chunks, _create_chunk(chunk_id, buffer, pi, section,
                                                        current_header_level))
                      ELSE chunks
           next_id == IF flush THEN NextId(chunk_id) ELSE chunk_id
           seed == ParaBuffer(para, pi, ki)
       IN  /\ header_level > 0
           /\ current_section' = section
           /\ current_header_level' = header_level
           /\ IF para.w > 20
              THEN /\ chunks' = Append(flushed,
                                       _create_chunk(next_id, seed, pi, section, header_level))
                   /\ chunk_id' = NextId(next_id)
                   /\ buffer' = EmptyBuffer
              ELSE /\ chunks' = flushed
                   /\ chunk_id' = next_id
                   /\ buffer' = seed
    /\ ki' = ki + 1
    /\ UNCHANGED <<pc, pi, raised, self_chunks>>
    /\ UNCHANGED Rest
    /\ UNCHANGED stamp

\* line 131 without the test of the paragraph
IsForcedSplitAnyParagraph(test_buffer, buf, is_critical, max_words) ==
    test_buffer.w > max_words /\ Truthy(buf)

\* line 131: test_word_count > self.max_words and buffer and not is_critical
IsForcedSplit(test_buffer, buf, is_critical, max_words) ==
    test_buffer.w > max_words /\ Truthy(buf) /\ ~is_critical

\* lines 103-108 and 126-146: a paragraph that is no header
BodyParagraph ==
    /\ pc = "para"
    /\ ki <= Len(Pages[pi].paras)
    /\ LET para == Pages[pi].paras[ki]
           this == ParaBuffer(para, pi, ki)
           test_buffer == IF Truthy(buffer) THEN Joined(buffer, this) ELSE this
           is_critical == _is_critical_content(this)
           overlap_text == _get_overlap_text(buffer, Pages, config.overlap_words)
       IN  /\ _classify_header(para)[1] = 0
           /\ IF IsForcedSplit(test_buffer, buffer, is_critical, config.max_words)
              THEN /\ chunks' = Append(chunks, _create_chunk(chunk_id, buffer, pi,
                                                     current_section, current_header_level))
                   /\ chunk_id' = NextId(chunk_id)
                   /\ buffer' = IF Truthy(overlap_text) THEN Joined(overlap_text, this)
                                ELSE this
              ELSE /\ buffer' = test_buffer
                   /\ UNCHANGED <<chunks, chunk_id>>
    /\ ki' = ki + 1
    /\ UNCHANGED <<pc, pi, current_section, current_header_level, raised, self_chunks>>
    /\ UNCHANGED Rest
    /\ UNCHANGED stamp

\* lines 148-154: the end of a page
PageEnd ==
    /\ pc = "para"
    /\ ki > Len(Pages[pi].paras)
    /\ IF Truthy(buffer) /\ buffer.w >= 30
       THEN /\ chunks' = Append(chunks, _create_chunk(chunk_id, buffer, pi,
                                              current_section, current_header_level))
            /\ chunk_id' = NextId(chunk_id)
            /\ buffer' = EmptyBuffer
       ELSE UNCHANGED <<chunks, chunk_id, buffer>>
    /\ pi' = pi + 1
    /\ pc' = "page"
    /\ UNCHANGED <<ki, current_section, current_header_level, raised, self_chunks>>
    /\ UNCHANGED Rest
    /\ UNCHANGED stamp

\* line 156 when no page was seen: buffer was never assigned
ChunkerRaise ==
    /\ pc = "page"
    /\ pi > Len(Pages)
    /\ buffer = Unbound
    /\ raised' = "UnboundLocalError"
    /\ pc' = "failed"
    /\ UNCHANGED <<self_chunks>>
    /\ UNCHANGED ChunkerVars
    /\ UNCHANGED Rest
    /\ UNCHANGED stamp

\* lines 156-172, and line 111 of compress_document, which keeps the result
ChunkerReturn ==
    /\ pc = "page"
    /\ pi > Len(Pages)
    /\ buffer # Unbound
    /\ LET final == IF Truthy(buffer) /\ buffer.w >= 30
                    THEN Append(chunks, _create_chunk(chunk_id, buffer, pi - 1,
                                              current_section, current_header_level))
                    ELSE chunks
       IN  /\ chunks' = _link_chunks(final)
           /\ self_chunks' = _link_chunks(final)
    /\ pc' = "chunked"
    /\ UNCHANGED <<pi, ki, buffer, chunk_id, current_section, current_header_level, raised>>
    /\ stamp' = [stamp EXCEPT !.chunks = run]
    /\ UNCHANGED Rest

NextChunk ==
    \/ ChunkerEnter
    \/ PageBegin
    \/ HeaderParagraph
    \/ BodyParagraph
    \/ PageEnd
    \/ ChunkerRaise
    \/ ChunkerReturn

(***************************************************************************)
(* HierarchicalCompressor._create_document_summary.                        *)
(* Full stops occur only where a segment has dot; a segment whose sep is   *)
(* "ellipsis" is followed by the three dots of the hard truncation, one    *)
(* whose sep is "stop" by the ". " of the expansion join, and one whose    *)
(* sep is "trail" by white space that ends the string.                     *)
(***************************************************************************)
\* list(set(xs)) for small integers: ascending
RECURSIVE SortedSeq(_)
SortedSeq(S) ==
    IF S = {} THEN <<>>
    ELSE LET m == CHOOSE x \in S : \A y \in S : x <= y
         IN  <<m>> \o SortedSeq(S \ {m})

\* line 315 keeping the chunk of the first summary alone
OnlyFirstSource(summaries) ==
    IF summaries = <<>> THEN <<>> ELSE <<summaries[1].source_chunks[1]>>

FirstSources(summaries) ==
    Flatten([i \in 1..Len(summaries) |->
                IF summaries[i].source_chunks # <<>>
                THEN <<summaries[i].source_chunks[1]>> ELSE <<>>])

AllPages(summaries) ==
    SortedSeq(UNION {{summaries[i].source_pages[q] : q \in 1..Len(summaries[i].source_pages)} :
                     i \in 1..Len(summaries)})

\* " ".join([s.summary_text for s in summaries]); the string ends with white
\* space when the last of several texts is empty
CombinedText(summaries) ==
    LET flat == Flatten([i \in 1..Len(summaries) |-> summaries[i].summary_text])
    IN  IF flat # <<>> /\ summaries[Len(summaries)].summary_text = <<>>
        THEN [i \in 1..Len(flat) |->
                 IF i = Len(flat) THEN [flat[i] EXCEPT !.sep = "trail"] ELSE flat[i]]
        ELSE flat

NoTruncation(text, n) == text

\* the first n words of text.split(): whole segments, then a part of one
RECURSIVE TakeWords(_, _)
TakeWords(text, n) ==
    IF text = <<>> \/ n <= 0 THEN <<>>
    ELSE LET h == Head(text)
         IN  IF h.w <= n
             THEN <<h>> \o TakeWords(Tail(text), n - h.w + (IF h.sep = "glue" THEN 1 ELSE 0))
             ELSE <<[h EXCEPT !.id = <<h.id[1], h.id[2], 3>>, !.w = n, !.snips = <<>>,
                              !.dot = FALSE]>>

\* ' '.join(words[:n]) + '...'
Truncated(text, n) ==
    LET kept == TakeWords(text, n)
    IN  IF kept = <<>>
        THEN <<[id |-> <<0, 0, 3>>, w |-> 1, tok |-> 0, crit |-> FALSE, snips |-> <<>>,
                sep |-> "ellipsis", dot |-> FALSE]>>
        ELSE [i \in 1..Len(kept) |->
                 IF i = Len(kept) THEN [kept[i] EXCEPT !.sep = "ellipsis"] ELSE kept[i]]

\* text.split('.')[0].strip(): the segments up to the first full stop
FirstPiece(text) ==
    LET dots == {i \in 1..Len(text) : text[i].dot}
        j == IF dots = {} THEN Len(text) ELSE CHOOSE i \in dots : \A d \in dots : i <= d
    IN  [i \in 1..j |->
            IF i = j THEN [text[i] EXCEPT !.sep = "space", !.dot = FALSE] ELSE text[i]]

\* sent in summary_text
PieceIn(sent, summary_text) == \A i \in 1..Len(sent) : sent[i].id \in Ids(summary_text)

\* the loop of lines 246-257: the parts appended after the summary
RECURSIVE ExpandLoop(_, _, _, _, _, _)
ExpandLoop(summaries, i, expanded, current_count, summary_text, max_length) ==
    IF i > Len(summaries) \/ current_count >= 200 \/ current_count >= max_length - 50
    THEN expanded
    ELSE LET sent == FirstPiece(summaries[i].summary_text)
             sent_words == Words(sent)
             take == /\ CharLen(sent_words) > 20
                     /\ ~PieceIn(sent, summary_text)
                     /\ current_count + sent_words <= max_length - 20
         IN  ExpandLoop(summaries, i + 1,
                        IF take THEN Append(expanded, sent) ELSE expanded,
                        IF take THEN current_count + sent_words ELSE current_count,
                        summary_text, max_length)

\* the single full stop that '. '.join puts after an empty first part
LoneStop ==
    <<[id |-> <<0, 0, 4>>, w |-> 1, tok |-> 0, crit |-> FALSE, snips |-> <<>>,
       sep |-> "space", dot |-> TRUE]>>

\* '. '.join(parts), then a full stop unless the string ends with one
JoinStops(parts) ==
    LET stopped(t, last) ==
            IF t = <<>> THEN LoneStop
            ELSE IF t[Len(t)].sep = "trail" THEN t \o LoneStop
            ELSE [i \in 1..Len(t) |->
                     IF i < Len(t) THEN t[i]
                     ELSE IF last THEN [t[i] EXCEPT !.dot = TRUE]
                     ELSE [t[i] EXCEPT !.sep = "stop"]]
    IN  Flatten([k \in 1..Len(parts) |-> stopped(parts[k], k = Len(parts))])

\* lines 240-263
Expanded(summaries, summary_text, max_length) ==
    JoinStops(<<summary_text>> \o
              ExpandLoop(summaries, 1, <<>>, Words(summary_text), summary_text, max_length))

\* target_ratio of lines 168-222; low as in Rat, for the quotient of line 221
TargetRatio(original_word_count, max_length, low) ==
    IF original_word_count <= max_length THEN Rat(9, 10)
    ELSE LET r == Rat(max_length - 10, original_word_count)
         IN  IF RatLeq(r, Rat(1, 10)) THEN Rat(1, 10)
             ELSE IF RatLeq(Rat(3, 10), r) THEN Rat(3, 10)
             ELSE [r EXCEPT !.low = low]

DocSummary(summary_text, summary_words, original_word_count, summaries) ==
    [summary_text |-> summary_text,
     summary_words |-> summary_words,
     original_words |-> original_word_count,
     compression_ratio |-> IF original_word_count > 0
                           THEN Rat(summary_words, original_word_count) ELSE Rat(0, 1),
     confidence |-> (85 * ConfOne) \div 100,
     level |-> "document",
     source_chunks |-> FirstSources(summaries),
     source_pages |-> AllPages(summaries),
     strategy |-> EXTRACTIVE,
     preserved_critical |-> <<>>]

\* lines 168-173 with the floor of the pass-through at 250 words
IsUnderMaxFrom250(original_word_count, max_length) ==
    original_word_count <= max_length /\ original_word_count >= 250

\* lines 168-173: the combined text is used as it is
IsUnderMax(original_word_count, max_length) ==
    original_word_count <= max_length /\ original_word_count >= 150

_create_document_summary(summaries, max_length, low) ==
    LET combined_text == CombinedText(summaries)
        original_word_count == Words(combined_text)
    IN  IF IsUnderMax(original_word_count, max_length)
        THEN DocSummary(combined_text, original_word_count, original_word_count, summaries)
        ELSE
        LET target_ratio == TargetRatio(original_word_count, max_length, low)
            extracted == _extractive_summarize(combined_text, target_ratio)
            words0 == Words(extracted)
            summary_text == IF words0 > max_length THEN Truncated(extracted, max_length)
                            ELSE IF words0 < 150 /\ words0 < max_length
                            THEN Expanded(summaries, extracted, max_length)
                            ELSE extracted
            summary_words == IF words0 > max_length THEN Words(TakeWords(extracted, max_length))
                             ELSE Words(summary_text)
        IN  IF summary_words > max_length
            THEN DocSummary(Truncated(summary_text, max_length), max_length,
                            original_word_count, summaries)
            ELSE DocSummary(summary_text, summary_words, original_word_count, summaries)

\* the n for which the double n * ((max_length - 10) / W) may fall below the
\* integer it approximates: those whose exact product is an integer
LowCandidates(summaries, max_length) ==
    LET combined_text == CombinedText(summaries)
        W == Words(combined_text)
        n == Len(Sentences(combined_text))
    IN  IF W = 0 THEN {}
        ELSE {m \in {W, n} : (m * (max_length - 10)) % W = 0}

(***************************************************************************)
(* Documents for the chunker: at most MaxParas paragraphs on at most       *)
(* MaxPages pages, and the configurations of compress_document.            *)
(***************************************************************************)
MaxParas == 3

MaxPages == 2

Para(w, form, sid, flags, n, hot) ==
    [w |-> w, form |-> form, sid |-> sid, n |-> n, hot |-> hot,
     exc |-> "exc" \in flags, risk |-> "risk" \in flags, contra |-> "contra" \in flags,
     num |-> "num" \in flags, date |-> "date" \in flags, spec |-> "spec" \in flags]

ParaKinds ==
    { Para(12, "plain", None, {}, 1, {}),
      Para(40, "plain", None, {"exc"}, 1, {}),
      Para(25, "plain", None, {"risk", "num", "spec"}, 1, {1}),
      Para(90, "plain", None, {"contra", "date", "num", "spec"}, 5, {2}),
      Para(3, "section", "1", {"num", "spec"}, 1, {}),
      Para(22, "section", "2", {"num", "spec"}, 1, {}),
      Para(4, "caps", None, {}, 1, {}) }

\* the pages of a list of paragraphs cut at the positions cuts
PagesOf(flat, cuts) ==
    [p \in 1..(Len(cuts) + 1) |->
        LET from == IF p = 1 THEN 0 ELSE cuts[p - 1]
            to == IF p = Len(cuts) + 1 THEN Len(flat) ELSE cuts[p]
        IN  [page_number |-> p,
             paras |-> SubSeq(flat, from + 1, to),
             word_count |-> SumW(SubSeq(flat, from + 1, to))]]

Cuts(k, n) ==
    {c \in [1..(n - 1) -> 0..k] : \A q \in 1..(n - 2) : c[q] <= c[q + 1]}

RECURSIVE SumPages(_)
SumPages(pages) ==
    IF pages = <<>> THEN 0 ELSE pages[1].word_count + SumPages(Tail(pages))

\* _analyze_structure: the element type of the line a paragraph starts with
ElementType(para) ==
    IF para.form \in {"section", "subsection", "caps"} THEN "header"
    ELSE IF para.exc THEN "exception"
    ELSE IF para.risk THEN "risk"
    ELSE IF para.contra THEN "contradiction"
    ELSE "paragraph"

\* the dictionary EnhancedPDFLoader.load returns
Loaded(pages) ==
    [pages |-> pages,
     structure |-> Flatten([p \in 1..Len(pages) |->
                      [q \in 1..Len(pages[p].paras) |-> ElementType(pages[p].paras[q])]]),
     stats |-> [total_pages |-> Len(pages), total_words |-> SumPages(pages)]]

default_config ==
    [min_words |-> 75, max_words |-> 300, overlap_words |-> 20, doc_max_length |-> 300,
     strategy |-> EXTRACTIVE]

Configs ==
    { default_config,
      [default_config EXCEPT !.min_words = 30, !.max_words = 60],
      [default_config EXCEPT !.min_words = 30, !.max_words = 50],
      [default_config EXCEPT !.min_words = 30, !.max_words = 50, !.overlap_words = 0] }

InitChunk ==
    /\ Idle
    /\ pc = "chunk_document"
    /\ \E k \in 0..MaxParas, n \in 0..MaxPages :
          \E flat \in [1..k -> ParaKinds], cuts \in Cuts(k, n) :
             /\ n = 0 => k = 0
             /\ document_data = Loaded(IF n = 0 THEN <<>> ELSE PagesOf(flat, cuts))
    /\ config \in Configs
    /\ arg = None
    /\ ret = None

SpecChunk == InitChunk /\ [][NextChunk]_vars

(***************************************************************************)
(* summarize_chunks, summarize_summaries and the stages of                 *)
(* compress_document after chunking.                                       *)
(***************************************************************************)
\* lines 265-268 with the results in the opposite order
SummarizeChunksReversed(cs, strategy, env) ==
    [i \in 1..Len(cs) |->
        [summarize_chunk(cs[Len(cs) + 1 - i], strategy, env) EXCEPT !.level = "chunk"]]

summarize_chunks(cs, strategy, env) ==
    [i \in 1..Len(cs) |-> [summarize_chunk(cs[i], strategy, env) EXCEPT !.level = "chunk"]]

\* the dictionary summarize_summaries hands to summarize_chunk
CombinedChunk(summaries) ==
    [text |-> CombinedText(summaries), chunk_id |-> 0 - 1,
     page_number |-> IF summaries # <<>> THEN summaries[1].source_pages[1] ELSE 0,
     chunk_type |-> "standard", section_id |-> None, contains_exceptions |-> FALSE]

summarize_summaries(summaries, level, strategy, env) ==
    LET result == CHOOSE r \in {summarize_chunk(chunk, strategy, env) :
                                    chunk \in {CombinedChunk(summaries)}} : TRUE
        fallback == _extractive_summarize(CombinedText(summaries), Rat(1, 2))
        sized == IF level = "document" /\ result.summary_words < 100
                 THEN [result EXCEPT !.summary_text = fallback,
                                     !.summary_words = Words(fallback),
                                     !.compression_ratio =
                                         Rat(Words(fallback), result.original_words)]
                 ELSE result
    IN  [sized EXCEPT !.level = level,
                      !.source_chunks = FirstSources(summaries),
                      !.source_pages = AllPages(summaries)]

\* line 323 and line 412 without the sentinel
SectionRaw(chunk) == chunk.section_id

\* chunk.section_id or "uncategorized"
SectionOf(chunk) == IF chunk.section_id # None THEN chunk.section_id ELSE "uncategorized"

\* chunk_to_section.get(id, "uncategorized")
ChunkToSection(cs, id) ==
    LET js == {j \in 1..Len(cs) : cs[j].chunk_id = id}
    IN  IF js = {} THEN "uncategorized"
        ELSE SectionOf(cs[CHOOSE j \in js : \A h \in js : h <= j])

\* the section each summary is grouped under, None for one without source
GroupOf(cs, summary) ==
    IF summary.source_chunks # <<>> THEN ChunkToSection(cs, summary.source_chunks[1]) ELSE None

\* the keys of section_groups in insertion order
RECURSIVE GroupOrder(_, _, _)
GroupOrder(cs, summaries, i) ==
    IF i > Len(summaries) THEN <<>>
    ELSE LET g == GroupOf(cs, summaries[i])
         IN  IF g = None \/ \E h \in 1..(i - 1) : GroupOf(cs, summaries[h]) = g
             THEN GroupOrder(cs, summaries, i + 1)
             ELSE <<g>> \o GroupOrder(cs, summaries, i + 1)

\* the positions in chunk_summaries of the members of one group
RECURSIVE Members(_, _, _, _)
Members(cs, summaries, g, i) ==
    IF i > Len(summaries) THEN <<>>
    ELSE (IF GroupOf(cs, summaries[i]) = g THEN <<i>> ELSE <<>>)
         \o Members(cs, summaries, g, i + 1)

\* line 337 taking the first chunk summary of the run instead of the group's
FirstOfAll(member) == 1

\* line 337: summaries[0], the position in chunk_summaries of the group's one member
LoneMember(member) == member[1]

\* line 335: len(summaries) == 1
IsLone(member) == Len(member) = 1

\* lines 335-344: the summary of the group g.  The summary of a group of one
\* is the chunk summary object itself with its section_id set.
SectionSummary(cs, summaries, g, strategy, env) ==
    LET member == Members(cs, summaries, g, 1)
    IN  IF IsLone(member) THEN [summaries[LoneMember(member)] EXCEPT !.section_id = g]
        ELSE CHOOSE sec \in
                 {[summarize_summaries(group, "section", strategy, env)
                      EXCEPT !.section_id = g] :
                  group \in {[q \in 1..Len(member) |-> summaries[member[q]]]}} : TRUE

\* lines 316-346: the section summaries, and chunk_summaries after the call,
\* where the summary that is alone in its group carries the group's name
_create_section_summaries(cs, summaries, strategy, env) ==
    [section_summaries |->
        CHOOSE secs \in
            {[k \in 1..Len(order) |-> SectionSummary(cs, summaries, order[k], strategy, env)] :
             order \in {GroupOrder(cs, summaries, 1)}} : TRUE,
     chunk_summaries |->
        [i \in 1..Len(summaries) |->
            IF IsLone(Members(cs, summaries, GroupOf(cs, summaries[i]), 1))
            THEN [summaries[i] EXCEPT !.section_id = GroupOf(cs, summaries[i])]
            ELSE summaries[i]]]

\* the routines the section stage runs
SectionRoutines(cs, summaries, strategy) ==
    LET order == GroupOrder(cs, summaries, 1)
        member(k) == Members(cs, summaries, order[k], 1)
    IN  UNION {IF Len(member(k)) = 1 THEN {}
               ELSE RoutinesRun(CombinedChunk([q \in 1..Len(member(k)) |->
                                                  summaries[member(k)[q]]]), strategy) :
               k \in 1..Len(order)}

\* line 353 with the contradiction flag as a further cause
IsFactChunkOrContradiction(chunk) ==
    \/ chunk.chunk_type = "critical"
    \/ chunk.contains_risks
    \/ chunk.contains_exceptions
    \/ chunk.contains_contradictions

\* line 353: the chunks a critical fact is made for
IsFactChunk(chunk) ==
    chunk.chunk_type = "critical" \/ chunk.contains_risks \/ chunk.contains_exceptions

_extract_critical_facts(cs, summaries) ==
    LET both == Min(Len(cs), Len(summaries))
    IN  Flatten([i \in 1..both |->
            IF IsFactChunk(cs[i])
            THEN <<[section |-> IF cs[i].section_id # None THEN cs[i].section_id ELSE "unknown",
                    page |-> cs[i].page_number,
                    summary |-> summaries[i].summary_text,
                    details |-> [has_exception |-> cs[i].contains_exceptions,
                                 has_risk |-> cs[i].contains_risks,
                                 has_contradiction |-> cs[i].contains_contradictions,
                                 has_numbers |-> cs[i].contains_numbers],
                    chunk_id |-> cs[i].chunk_id]>>
            ELSE <<>>])

_detect_contradictions(data, cs) ==
    Cardinality({i \in 1..Len(data.structure) : data.structure[i] = "contradiction"})
    + Cardinality({i \in 1..Len(cs) : cs[i].contains_contradictions})

\* line 504 with > in place of >=
IsPreservedAbove(confidence) == 10 * confidence > 3 * ConfOne

\* line 504: s.confidence >= 0.3
IsPreserved(confidence) == 10 * confidence >= 3 * ConfOne

\* lines 487-512: the rate as a fraction
_calc_critical_preservation(cs, summaries) ==
    LET both == Min(Len(cs), Len(summaries))
        critical == {i \in 1..both :
                        \/ cs[i].chunk_type = "critical"
                        \/ cs[i].contains_exceptions
                        \/ cs[i].contains_risks
                        \/ cs[i].contains_contradictions}
        preserved == {i \in critical : IsPreserved(summaries[i].confidence)}
    IN  IF critical # {} THEN Rat(Cardinality(preserved), Cardinality(critical))
        ELSE Rat(1, 1)

RECURSIVE SumField(_, _)
SumField(summaries, field) ==
    IF summaries = <<>> THEN 0
    ELSE Head(summaries)[field] + SumField(Tail(summaries), field)

\* lines 515-530, in confidence units; the caller has a positive total_words
_calc_info_loss(data, doc, cs, summaries) ==
    LET final_ratio == (doc.summary_words * ConfOne) \div data.stats.total_words
        avg_conf == IF summaries # <<>>
                    THEN SumField(summaries, "confidence") \div Len(summaries) ELSE 0
        rate == _calc_critical_preservation(cs, summaries)
        crit_rate == (rate.num * ConfOne) \div rate.den
        loss == (3 * (ConfOne - final_ratio) + 4 * (ConfOne - avg_conf)
                 + 3 * (ConfOne - crit_rate)) \div 10
    IN  Clamp01(loss)

\* lines 426 and 443 with the fraction upside down
LevelRatioInverted(total, previous) ==
    IF previous > 0 THEN Rat(previous, Max(total, 1)) ELSE Rat(0, 1)

\* lines 426 and 443: total / previous if previous > 0 else 0
LevelRatio(total, previous) ==
    IF previous > 0 THEN Rat(total, previous) ELSE Rat(0, 1)

\* lines 382-485; line 405 divides by the raw word count
_build_report(data, cs, summaries, sections, doc) ==
    LET words == data.stats.total_words
        chunk_total == SumField(summaries, "summary_words")
        sec_total == SumField(sections, "summary_words")
        both == Min(Len(cs), Len(summaries))
    IN  IF words = 0 THEN [raised |-> "ZeroDivisionError", report |-> None]
        ELSE [raised |-> None,
              report |->
                [original_stats |-> [pages |-> data.stats.total_pages, words |-> words],
                 contradiction_count |-> _detect_contradictions(data, cs),
                 critical_facts_summary |-> _extract_critical_facts(cs, summaries),
                 levels |->
                    << [level_name |-> "raw", item_count |-> Len(data.pages),
                        total_words |-> words, compression_ratio |-> Rat(1, 1),
                        items |-> <<>>],
                       [level_name |-> "chunk", item_count |-> Len(summaries),
                        total_words |-> chunk_total,
                        compression_ratio |-> Rat(chunk_total, words),
                        items |-> [i \in 1..both |->
                                      [chunk_id |-> IF summaries[i].source_chunks # <<>>
                                                    THEN summaries[i].source_chunks[1]
                                                    ELSE i - 1,
                                       section_id |-> SectionOf(cs[i]),
                                       page_number |-> cs[i].page_number]]],
                       [level_name |-> "section", item_count |-> Len(sections),
                        total_words |-> sec_total,
                        compression_ratio |-> LevelRatio(sec_total, chunk_total),
                        items |-> [i \in 1..Len(sections) |->
                                      [section_id |-> sections[i].section_id]]],
                       [level_name |-> "document", item_count |-> 1,
                        total_words |-> doc.summary_words,
                        compression_ratio |-> LevelRatio(doc.summary_words, sec_total),
                        items |-> <<>>] >>,
                 critical_preservation_rate |-> _calc_critical_preservation(cs, summaries),
                 information_loss_score |-> _calc_info_loss(data, doc, cs, summaries)]]

(***************************************************************************)
(* SpecDoc: one call of _create_document_summary on a list of at most      *)
(* MaxSecs section summaries.                                              *)
(***************************************************************************)
MaxSecs == 2

\* the shapes of the text of a section summary; W = 0 is the empty string
SecShapes ==
    {[W |-> 0, n |-> 1, layout |-> "even", hot |-> {}, lastdot |-> FALSE]} \cup
    {[W |-> W, n |-> 1, layout |-> "even", hot |-> {}, lastdot |-> lastdot] :
        W \in {3, 40}, lastdot \in BOOLEAN} \cup
    {[W |-> W, n |-> 5, layout |-> layout, hot |-> hot, lastdot |-> TRUE] :
        W \in {60, 200}, layout \in {"even", "gluedfront"}, hot \in {{}, {2}}}

ShapeText(k, shape) ==
    IF shape.W = 0 THEN <<>>
    ELSE MakeText(k, shape.W, shape.n, shape.layout, shape.hot, WholeSnippet, shape.lastdot)

\* a summary the way summarize_chunk returns it for a text it passes through
Summary(text, k, level, section_id) ==
    [raised |-> None, summary_text |-> text, original_words |-> Words(text),
     summary_words |-> Words(text), compression_ratio |-> Rat(1, 1),
     strategy |-> EXTRACTIVE, source_chunks |-> <<k>>, source_pages |-> <<1>>,
     confidence |-> ConfOne, preserved_critical |-> <<>>, level |-> level,
     section_id |-> section_id]

DocMaxLengths == {1, 30, 100, 300}

InitDoc ==
    /\ raised = None
    /\ pi = 0 /\ ki = 0 /\ buffer = Unbound /\ chunk_id = 0
    /\ current_section = None /\ current_header_level = 0 /\ chunks = <<>>
    /\ self_chunks = None /\ chunk_summaries = None
    /\ document_summary = None /\ report = None /\ invoked = {}
    /\ document_data = NoDocument
    /\ run = 1 /\ stamp = [NoStamp EXCEPT !.section_summaries = 1]
    /\ pc = "_create_document_summary"
    /\ \E m \in 0..MaxSecs :
          \E shapes \in [1..m -> SecShapes] :
             section_summaries =
                 [k \in 1..m |-> Summary(ShapeText(k, shapes[k]), k, "section", "1")]
    /\ \E max_length \in DocMaxLengths :
          config = [default_config EXCEPT !.doc_max_length = max_length]
    /\ arg = None
    /\ ret = None

\* line 126 of compress_document
CreateDocumentSummary ==
    /\ pc = "_create_document_summary"
    /\ \E low \in SUBSET LowCandidates(section_summaries, config.doc_max_length) :
          document_summary' =
              _create_document_summary(section_summaries, config.doc_max_length, low)
    /\ pc' = "_build_report"
    /\ UNCHANGED <<raised, document_data, config, pi, ki, buffer, chunk_id,
                   current_section, current_header_level, chunks, self_chunks,
                   chunk_summaries, section_summaries, report, invoked, arg, ret, run>>
    /\ stamp' = [stamp EXCEPT !.document_summary = run]

NextDoc == CreateDocumentSummary

SpecDoc == InitDoc /\ [][NextDoc]_vars

(***************************************************************************)
(* Spec: compress_document from the load of the file to the report.        *)
(***************************************************************************)
\* the paragraphs of the documents the whole pipeline is run on
PipelineKinds ==
    { Para(12, "plain", None, {}, 1, {}),
      Para(60, "plain", None, {}, 3, {}),
      Para(40, "plain", None, {"exc"}, 1, {}),
      Para(90, "plain", None, {"contra", "date", "num", "spec"}, 5, {2}),
      Para(3, "section", "1", {"num", "spec"}, 1, {}) }

Init ==
    /\ Idle
    /\ document_data = NoDocument
    /\ config \in Configs
    /\ pc = "load"
    /\ arg = None
    /\ ret = None

PipelineRest == <<pi, ki, buffer, chunk_id, current_section, current_header_level, chunks,
                  run>>

\* line 95: the loader returns the document
LoadFrom(kinds, paras, pages) ==
    /\ pc = "load"
    /\ \E k \in 0..paras, n \in 0..pages :
          \E flat \in [1..k -> kinds], cuts \in Cuts(k, n) :
             /\ n = 0 => k = 0
             /\ document_data' = Loaded(IF n = 0 THEN <<>> ELSE PagesOf(flat, cuts))
    /\ pc' = "chunk_document"
    /\ UNCHANGED <<raised, config, self_chunks, chunk_summaries, section_summaries,
                   document_summary, report, invoked, arg, ret>>
    /\ UNCHANGED PipelineRest
    /\ stamp' = [stamp EXCEPT !.document_data = run]

\* a load failure that would also reset the chunks of the compressor
LoadMissingResets ==
    /\ pc = "load"
    /\ raised' = "FileNotFoundError"
    /\ pc' = "failed"
    /\ self_chunks' = <<>>
    /\ UNCHANGED <<document_data, config, chunk_summaries, section_summaries,
                   document_summary, report, invoked, arg, ret>>
    /\ UNCHANGED PipelineRest
    /\ UNCHANGED stamp

\* load, lines 62-63: there is no file at pdf_path
LoadMissing ==
    /\ pc = "load"
    /\ raised' = "FileNotFoundError"
    /\ pc' = "failed"
    /\ UNCHANGED <<document_data, config, self_chunks, chunk_summaries, section_summaries,
                   document_summary, report, invoked, arg, ret>>
    /\ UNCHANGED PipelineRest
    /\ UNCHANGED stamp

\* load, lines 67-70: the file cannot be opened as a PDF
LoadUnreadable ==
    /\ pc = "load"
    /\ raised' = "RuntimeError"
    /\ pc' = "failed"
    /\ UNCHANGED <<document_data, config, self_chunks, chunk_summaries, section_summaries,
                   document_summary, report, invoked, arg, ret>>
    /\ UNCHANGED PipelineRest
    /\ UNCHANGED stamp

\* lines 113-118: the summarizer is built with the hybrid strategy
SummarizeChunks ==
    /\ pc = "chunked"
    /\ \E env \in SumEnvs :
          chunk_summaries' = summarize_chunks(self_chunks, HYBRID, env)
    /\ invoked' = invoked \cup UNION {RoutinesRun(self_chunks[i], HYBRID) :
                                         i \in 1..Len(self_chunks)}
    /\ pc' = "_create_section_summaries"
    /\ UNCHANGED <<raised, document_data, config, self_chunks, section_summaries,
                   document_summary, report, arg, ret>>
    /\ UNCHANGED PipelineRest
    /\ stamp' = [stamp EXCEPT !.chunk_summaries = run]

\* line 122
CreateSectionSummaries ==
    /\ pc = "_create_section_summaries"
    /\ \E env \in SumEnvs :
          \E made \in {_create_section_summaries(self_chunks, chunk_summaries, HYBRID, env)} :
             /\ section_summaries' = made.section_summaries
             /\ chunk_summaries' = made.chunk_summaries
    /\ invoked' = invoked \cup SectionRoutines(self_chunks, chunk_summaries, HYBRID)
    /\ pc' = "_create_document_summary"
    /\ UNCHANGED <<raised, document_data, config, self_chunks, document_summary, report,
                   arg, ret>>
    /\ UNCHANGED PipelineRest
    /\ stamp' = [stamp EXCEPT !.section_summaries = run]

\* lines 131-136: the report is built and kept
BuildReport ==
    /\ pc = "_build_report"
    /\ IsLoaded(document_data)
    /\ \E built \in {_build_report(document_data, self_chunks, chunk_summaries,
                                    section_summaries, document_summary)} :
          /\ raised' = built.raised
          /\ report' = built.report
          /\ pc' = IF built.raised = None THEN "done" ELSE "failed"
    /\ UNCHANGED <<document_data, config, self_chunks, chunk_summaries, section_summaries,
                   document_summary, invoked, arg, ret>>
    /\ UNCHANGED PipelineRest
    /\ stamp' = IF pc' = "done" THEN [stamp EXCEPT !.report = run] ELSE stamp

\* lines 93-95 on a document of the pipeline's family
Load == LoadFrom(PipelineKinds, MaxParas, MaxPages)

Next ==
    \/ Load
    \/ LoadMissing
    \/ LoadUnreadable
    \/ ChunkerEnter
    \/ PageBegin
    \/ HeaderParagraph
    \/ BodyParagraph
    \/ PageEnd
    \/ ChunkerRaise
    \/ ChunkerReturn
    \/ SummarizeChunks
    \/ CreateSectionSummaries
    \/ CreateDocumentSummary
    \/ BuildReport

Spec == Init /\ [][Next]_vars

(***************************************************************************)
(* SpecRuns: at most MaxRuns calls of compress_document, one after the     *)
(* other, on the same HierarchicalCompressor.  A call starts when the one  *)
(* before it has returned or raised; compress_document assigns no field    *)
(* before its load step, so the fields keep what they held.                *)
(***************************************************************************)
MaxRuns == 2

RunParas == 1

RunKinds ==
    { Para(40, "plain", None, {"exc"}, 1, {}),
      Para(90, "plain", None, {"contra", "date", "num", "spec"}, 5, {2}),
      Para(3, "section", "1", {"num", "spec"}, 1, {}) }

\* lines 93-95 on a document of at most RunParas paragraphs on one page
LoadRun == LoadFrom(RunKinds, RunParas, 1)

\* lines 60-91: compress_document is called again on the same object
Restart ==
    /\ pc \in {"done", "failed"}
    /\ run < MaxRuns
    /\ run' = run + 1
    /\ config' \in Configs
    /\ raised' = None
    /\ pc' = "load"
    /\ UNCHANGED <<document_data, pi, ki, buffer, chunk_id, current_section,
                   current_header_level, chunks, self_chunks, chunk_summaries,
                   section_summaries, document_summary, report, invoked, arg, ret, stamp>>

NextRuns ==
    \/ LoadRun
    \/ LoadMissing
    \/ LoadUnreadable
    \/ ChunkerEnter
    \/ PageBegin
    \/ HeaderParagraph
    \/ BodyParagraph
    \/ PageEnd
    \/ ChunkerRaise
    \/ ChunkerReturn
    \/ SummarizeChunks
    \/ CreateSectionSummaries
    \/ CreateDocumentSummary
    \/ BuildReport
    \/ Restart

SpecRuns == Init /\ [][NextRuns]_vars

(***************************************************************************)
(* Claims.                                                                 *)
(***************************************************************************)
Returned == pc = "returned" /\ ret.raised = None

\* C1: the summary of a chunk never has more words than the chunk, and has
\* exactly as many when the chunk has fewer than 50 words; the reported
\* counts are the word counts of the two texts.
C1_NoExpansion ==
    Returned =>
        /\ ret.original_words = Words(arg.chunk.text)
        /\ ret.summary_words = Words(ret.summary_text)
        /\ ret.summary_words <= ret.original_words
        /\ ret.original_words < 50 => ret.summary_words = ret.original_words

\* a critical chunk of 200 words or more whose summary ends with an appended
\* snippet, and a chunk whose summary was redone by the safety check
C1_Witness ==
    /\ Returned
    /\ ret.strategy = CRITICAL_PRESERVING
    /\ \E i \in 1..Len(ret.summary_text) : ret.summary_text[i].id[3] = 1
    /\ ret.summary_words < ret.original_words

\* C7: a chunk of fewer than 50 words is returned as it is, with ratio 1.0
\* and confidence 1.0, whatever its type and flags.
C7_PassThrough ==
    (Returned /\ Words(arg.chunk.text) < 50) =>
        /\ ret.summary_text = arg.chunk.text
        /\ ret.compression_ratio = Rat(1, 1)
        /\ ret.confidence = ConfOne

\* a critical chunk of 49 words in more than three sentences
C7_Witness ==
    /\ Returned
    /\ Words(arg.chunk.text) = 49
    /\ Len(Sentences(arg.chunk.text)) > 3
    /\ arg.chunk.chunk_type = "critical"
    /\ arg.chunk.contains_exceptions
    /\ ret.summary_text = arg.chunk.text

\* C8: for a chunk of 50 words or more the recorded strategy follows from the
\* chunk alone (extractive below 200 words, critical-preserving for critical
\* chunks and chunks with exceptions, extractive otherwise), the summary and
\* the recorded strategy under any configured strategy are those obtained
\* under the extractive one, and neither the abstractive nor the hybrid
\* routine runs.
C8_StrategyForced ==
    (Returned /\ Words(arg.chunk.text) >= 50) =>
        /\ ret.strategy =
              (IF Words(arg.chunk.text) < 200 THEN EXTRACTIVE
               ELSE IF arg.chunk.chunk_type = "critical" \/ arg.chunk.contains_exceptions
                    THEN CRITICAL_PRESERVING
                    ELSE EXTRACTIVE)
        /\ \A env \in SumEnvs :
              LET other == summarize_chunk(arg.chunk, EXTRACTIVE, env)
              IN  /\ other.summary_text = ret.summary_text
                  /\ other.strategy = ret.strategy
        /\ invoked \subseteq {"_extractive_summarize", "_critical_preserving_summarize"}
        /\ invoked # {}

\* a critical chunk of 199 words summarized extractively under a configured
\* abstractive strategy
C8_Witness ==
    /\ Returned
    /\ arg.strategy = ABSTRACTIVE
    /\ arg.chunk.chunk_type = "critical"
    /\ Words(arg.chunk.text) = 199
    /\ ret.strategy = EXTRACTIVE
    /\ ret.summary_words < 199

\* C3: chunk_document on a document without pages returns the empty list and
\* does not raise.
C3_NoPagesNoChunks ==
    (IsLoaded(document_data) /\ document_data.pages = <<>> /\ pc \notin {"chunk_document", "page"})
        => (pc = "chunked" /\ raised = None /\ chunks = <<>>)

\* C6: the chunk_ids of the chunks built by chunk_document are pairwise distinct
\* and strictly increasing in list order.
C6_ChunkIdsIncrease ==
    \A i \in 1..Len(chunks) : \A j \in 1..Len(chunks) :
        i < j => chunks[i].chunk_id < chunks[j].chunk_id

C6_Witness ==
    /\ pc = "chunked"
    /\ Len(chunks) >= 3
    /\ \E i \in 1..Len(chunks) : chunks[i].chunk_type = "header"
    /\ \E i \in 1..Len(chunks) : \E q \in 1..Len(chunks[i].parts) :
          chunks[i].parts[q].kind = "overlap"

DocumentMade ==
    \/ pc \in {"_build_report", "done"}
    \/ (pc = "failed" /\ raised = "ZeroDivisionError")

\* C2: the document summary never has more than doc_max_length words, both as
\* reported in summary_words and as counted in its text, for every positive
\* doc_max_length.
C2_DocWithinMax ==
    (DocumentMade /\ config.doc_max_length > 0)
        => /\ document_summary.summary_words <= config.doc_max_length
           /\ Words(document_summary.summary_text) <= config.doc_max_length

C2_Witness ==
    /\ DocumentMade
    /\ config.doc_max_length = 30
    /\ Words(CombinedText(section_summaries)) > 30
    /\ document_summary.summary_words = 30
    /\ document_summary.summary_text[Len(document_summary.summary_text)].sep = "ellipsis"

\* C9: when the combined section text has at most doc_max_length words, the
\* text of the document summary is the combined text, unchanged, whatever its
\* length.
C9_UnderMaxUnchanged ==
    (DocumentMade /\ Words(CombinedText(section_summaries)) <= config.doc_max_length)
        => document_summary.summary_text = CombinedText(section_summaries)

\* C9, as the code has it: a combined text of 150 to doc_max_length words is
\* the document summary, unchanged; a shorter one that is under the maximum goes
\* through the extractive routine and the expansion, and ends with a full stop.
C9_PassThroughFrom150 ==
    DocumentMade =>
        LET combined == CombinedText(section_summaries)
            text == document_summary.summary_text
        IN  /\ (150 <= Words(combined) /\ Words(combined) <= config.doc_max_length)
                  => (text = combined /\ document_summary.summary_words = Words(combined))
            /\ (Words(combined) < 150 /\ Words(combined) < config.doc_max_length)
                  => text[Len(text)].dot

C9_Witness ==
    /\ DocumentMade
    /\ Len(section_summaries) = 2
    /\ Words(CombinedText(section_summaries)) = 260
    /\ config.doc_max_length = 300
    /\ document_summary.summary_text = CombinedText(section_summaries)

Finished == pc \in {"done", "failed"}

\* C4: for a loaded document with no words or with no chunks, compress_document
\* returns a report and does not raise; the ratios with a zero denominator are
\* 0 or 1 and critical_preservation_rate is 1.
C4_DegenerateCompletes ==
    /\ (IsLoaded(document_data) /\ document_data.stats.total_words = 0)
          => raised = None
    /\ (Finished /\ IsLoaded(document_data) /\ chunks = <<>>)
          => /\ pc = "done"
             /\ RatEq(report.critical_preservation_rate, Rat(1, 1))
             /\ \A l \in 1..Len(report.levels) :
                   \/ RatEq(report.levels[l].compression_ratio, Rat(0, 1))
                   \/ RatEq(report.levels[l].compression_ratio, Rat(1, 1))

Summarized == pc \in {"_create_section_summaries", "_create_document_summary",
                      "_build_report", "done"} \/ (pc = "failed" /\ raised = "ZeroDivisionError")

Sectioned == pc \in {"_create_document_summary", "_build_report", "done"}
                 \/ (pc = "failed" /\ raised = "ZeroDivisionError")

\* C5: every confidence of a summary, the critical_preservation_rate and the
\* information_loss_score of the report lie between 0 and 1.
C5_ScoresInUnitInterval ==
    /\ Summarized =>
          \A i \in 1..Len(chunk_summaries) :
              0 <= chunk_summaries[i].confidence /\ chunk_summaries[i].confidence <= ConfOne
    /\ Sectioned =>
          \A i \in 1..Len(section_summaries) :
              0 <= section_summaries[i].confidence /\ section_summaries[i].confidence <= ConfOne
    /\ pc = "done" =>
          /\ RatLeq(Rat(0, 1), report.critical_preservation_rate)
          /\ RatLeq(report.critical_preservation_rate, Rat(1, 1))
          /\ 0 <= report.information_loss_score
          /\ report.information_loss_score <= ConfOne

C5_Witness ==
    /\ pc = "done"
    /\ document_summary.summary_words > document_data.stats.total_words
    /\ \E i \in 1..Len(chunk_summaries) : chunk_summaries[i].confidence = ConfOne
    /\ \E i \in 1..Len(chunk_summaries) : chunk_summaries[i].confidence < ConfOne
    /\ report.critical_preservation_rate.den > 1

\* C10: the stages after chunk summarization leave every chunk summary as
\* summarize_chunks returned it.
C10_ChunkSummariesKept ==
    [][(pc \in {"_create_section_summaries", "_create_document_summary", "_build_report"})
          => (chunk_summaries' = chunk_summaries)]_vars

\* the chunk at position i is the only chunk of its section
AloneInSection(i) ==
    \A j \in 1..Len(self_chunks) :
        SectionOf(self_chunks[j]) = SectionOf(self_chunks[i]) => j = i

\* C11: a section group of exactly one chunk summary has a section summary
\* whose summary_text is that chunk summary's summary_text.
C11_LoneSectionText ==
    Sectioned =>
        \A i \in 1..Len(chunk_summaries) :
            AloneInSection(i) =>
                \E k \in 1..Len(section_summaries) :
                    /\ section_summaries[k].section_id = SectionOf(self_chunks[i])
                    /\ section_summaries[k].summary_text = chunk_summaries[i].summary_text
                    /\ section_summaries[k].summary_words = chunk_summaries[i].summary_words

C11_Witness ==
    /\ Sectioned
    /\ \E i \in 1..Len(chunk_summaries) :
          /\ AloneInSection(i)
          /\ i > 1
          /\ chunk_summaries[i].original_words >= 50
          /\ chunk_summaries[i].summary_words < chunk_summaries[i].original_words
          /\ \E k \in 1..Len(section_summaries) :
                /\ section_summaries[k].summary_text = chunk_summaries[i].summary_text
                /\ section_summaries[k].summary_text # chunk_summaries[1].summary_text

\* the chunks counted as critical: critical type or an exception, risk or
\* contradiction flag
CountedCritical ==
    {i \in 1..Len(self_chunks) :
        \/ self_chunks[i].chunk_type = "critical"
        \/ self_chunks[i].contains_exceptions
        \/ self_chunks[i].contains_risks
        \/ self_chunks[i].contains_contradictions}

\* C12: critical_preservation_rate is preserved/total_critical, a counted chunk
\* being preserved exactly when its paired summary has confidence >= 0.3 (0.3
\* included); the rate is 1.0 when no chunk is counted.
C12_PreservationRate ==
    pc = "done" =>
        LET kept == {i \in CountedCritical : chunk_summaries[i].confidence * 10 >= ConfOne * 3}
        IN  IF CountedCritical = {}
            THEN RatEq(report.critical_preservation_rate, Rat(1, 1))
            ELSE RatEq(report.critical_preservation_rate,
                       Rat(Cardinality(kept), Cardinality(CountedCritical)))

C12_Witness ==
    /\ pc = "done"
    /\ \E i \in CountedCritical : chunk_summaries[i].confidence * 10 = ConfOne * 3
    /\ \E i \in CountedCritical : chunk_summaries[i].confidence * 10 > ConfOne * 3
    /\ \E i \in 1..Len(self_chunks) : i \notin CountedCritical
    /\ RatEq(report.critical_preservation_rate, Rat(1, 1))

\* C13: over any sequence of compress_document calls on one compressor, no
\* field holds a value set by an earlier call once a later call has started.
C13_FieldsOfOneRun ==
    \A f \in DOMAIN stamp : stamp[f] \in {0, run}

\* C14: a report has the four levels raw, chunk, section, document in this
\* order; raw has ratio 1.0; the item counts are the numbers of chunk
\* summaries, of section summaries, and 1; the ratio of each later level is
\* its total_words over the total_words of the level before it.
C14_FourLevels ==
    pc = "done" =>
        LET levels == report.levels
        IN  /\ Len(levels) = 4
            /\ [l \in 1..4 |-> levels[l].level_name] = <<"raw", "chunk", "section", "document">>
            /\ RatEq(levels[1].compression_ratio, Rat(1, 1))
            /\ levels[1].total_words = document_data.stats.total_words
            /\ levels[2].item_count = Len(chunk_summaries)
            /\ levels[3].item_count = Len(section_summaries)
            /\ levels[4].item_count = 1
            /\ \A l \in 2..4 :
                  levels[l - 1].total_words > 0 =>
                      RatEq(levels[l].compression_ratio,
                            Rat(levels[l].total_words, levels[l - 1].total_words))

C14_Witness ==
    /\ pc = "done"
    /\ Len(chunk_summaries) > Len(section_summaries)
    /\ \A l \in 1..4 : report.levels[l].total_words > 0
    /\ report.levels[2].total_words # report.levels[1].total_words
    /\ report.levels[3].total_words < report.levels[2].total_words

\* C15: in a report no section identifier is null: the section_id of every
\* chunk-level and section-level item and the section of every critical fact
\* is an id captured from a header or "uncategorized" / "unknown".
C15_NoNullSection ==
    pc = "done" =>
        LET named == {"uncategorized", "unknown"} \cup
                     ({self_chunks[i].section_id : i \in 1..Len(self_chunks)} \ {None})
            facts == report.critical_facts_summary
        IN  /\ \A l \in 2..3 : \A i \in 1..Len(report.levels[l].items) :
                  report.levels[l].items[i].section_id \in named
            /\ \A i \in 1..Len(facts) : facts[i].section \in named
            /\ Len(report.levels[2].items) = Len(self_chunks)
            /\ Len(report.levels[3].items) = Len(section_summaries)

C15_Witness ==
    /\ pc = "done"
    /\ \E i \in 1..Len(self_chunks) : self_chunks[i].section_id = None
    /\ \E i \in 1..Len(self_chunks) : self_chunks[i].section_id = "1"
    /\ \E i \in 1..Len(report.critical_facts_summary) :
          report.critical_facts_summary[i].section = "unknown"
    /\ \E i \in 1..Len(report.levels[3].items) :
          report.levels[3].items[i].section_id = "uncategorized"

\* C16: a compress_document call whose source is missing or unreadable raises
\* FileNotFoundError / RuntimeError from the load step: the failing load is
\* the only step of the call (no retry, no later stage, nothing more until
\* the next call), and chunks, summaries and report keep the values they had.
C16_LoadFailureRaises ==
    [][/\ (pc = "load" /\ raised' # None) =>
              /\ pc' = "failed"
              /\ raised' \in {"FileNotFoundError", "RuntimeError"}
              /\ self_chunks' = self_chunks
              /\ chunk_summaries' = chunk_summaries
              /\ section_summaries' = section_summaries
              /\ document_summary' = document_summary
              /\ report' = report
              /\ document_data' = document_data
              /\ invoked' = invoked
              /\ stamp' = stamp
       /\ (pc = "failed") => (pc' = "load" /\ run' = run + 1 /\ stamp' = stamp)
      ]_vars

C16_Witness ==
    /\ pc = "failed"
    /\ raised \in {"FileNotFoundError", "RuntimeError"}
    /\ run = 2
    /\ \A f \in DOMAIN stamp : stamp[f] = 1
    /\ Len(self_chunks) > 0
    /\ Len(chunk_summaries) > 0

\* C17: whenever the abstractive generator fails, at model loading (module
\* missing or any other reason) or during inference, _abstractive_summarize
\* returns the extractive summary of its text and raises nothing.
C17_FailureFallsBack ==
    (pc \in {"returned", "failed"} /\ arg.model # "ok") =>
        /\ pc = "returned"
        /\ raised = None
        /\ ret = _extractive_summarize(arg.text, Ratio035)

\* the paragraph a part of a chunk was taken from is a header paragraph
IsHeaderPart(part) ==
    /\ part.kind = "para"
    /\ _classify_header(Pages[part.page].paras[part.idx])[1] > 0

\* the chunk holds the text of a header paragraph
FromHeader(chunk) ==
    \E q \in 1..Len(chunk.parts) : IsHeaderPart(chunk.parts[q])

\* C18: a chunk is typed header only if it was created from a header
\* paragraph; a chunk of body text alone, as emitted after a forced split or
\* at page end on a page where a header was seen earlier, is typed by its own
\* content: critical only with a critical pattern and more than 20 words,
\* standard otherwise, never header.
C18_TypedByContent ==
    pc \in {"page", "para", "chunked"} =>
        \A i \in 1..Len(chunks) :
            /\ chunks[i].chunk_type = "header" => FromHeader(chunks[i])
            /\ chunks[i].chunk_type = "critical" =>
                  /\ chunks[i].word_count > 20
                  /\ \/ chunks[i].contains_exceptions
                     \/ chunks[i].contains_risks
                     \/ chunks[i].contains_contradictions

\* the step of chunk_document over a header paragraph
AtHeader ==
    /\ pc = "para"
    /\ ki' = ki + 1
    /\ _classify_header(Pages[pi].paras[ki])[1] > 0

\* what a header paragraph does to the chunks: the buffer is emitted exactly
\* when it has at least min_words words, and a header of more than 20 words
\* is emitted as a header chunk of its own
HeaderEmits ==
    LET para == Pages[pi].paras[ki]
        flush == Truthy(buffer) /\ buffer.w >= config.min_words
        alone == para.w > 20
        n == Len(chunks)
    IN  /\ Len(chunks') = n + (IF flush THEN 1 ELSE 0) + (IF alone THEN 1 ELSE 0)
        /\ SubSeq(chunks', 1, n) = chunks
        /\ flush => chunks'[n + 1].parts = buffer.parts
        /\ alone => /\ chunks'[Len(chunks')].parts = ParaBuffer(para, pi, ki).parts
                    /\ chunks'[Len(chunks')].chunk_type = "header"

\* C19 as stated: at a header paragraph the buffer is emitted exactly when it
\* has at least min_words words and the header becomes the seed of the new
\* buffer, also when a header of more than 20 words is emitted as its own
\* header chunk.
C19_HeaderSeedsBuffer ==
    [][AtHeader => (HeaderEmits /\ buffer' = ParaBuffer(Pages[pi].paras[ki], pi, ki))]_vars

\* C19 amended: at a header paragraph the buffer is emitted exactly when it
\* has at least min_words words; a header of at most 20 words becomes the
\* seed of the new buffer, a header of more than 20 words is emitted as its
\* own header chunk and leaves the buffer empty.
C19_LongHeaderLeavesBufferEmpty ==
    [][AtHeader =>
          /\ HeaderEmits
          /\ buffer' = IF Pages[pi].paras[ki].w > 20
                       THEN EmptyBuffer
                       ELSE ParaBuffer(Pages[pi].paras[ki], pi, ki)]_vars

C19_Witness ==
    /\ pc = "para"
    /\ ki > 2
    /\ _classify_header(Pages[pi].paras[ki - 1])[1] > 0
    /\ Pages[pi].paras[ki - 1].w > 20
    /\ buffer = EmptyBuffer
    /\ Len(chunks) >= 2
    /\ chunks[Len(chunks)].chunk_type = "header"
    /\ chunks[Len(chunks)].parts = ParaBuffer(Pages[pi].paras[ki - 1], pi, ki - 1).parts
    /\ chunks[Len(chunks) - 1].page_number = pi
    /\ ~FromHeader(chunks[Len(chunks) - 1])

\* the step of chunk_document over a paragraph that is no header
AtBody ==
    /\ pc = "para"
    /\ ki' = ki + 1
    /\ _classify_header(Pages[pi].paras[ki])[1] = 0

\* the paragraphs a sequence of chunks holds whole, chunk by chunk
WholeParas(cs) ==
    [i \in 1..Len(cs) |->
        {<<cs[i].parts[q].page, cs[i].parts[q].idx>> :
            q \in {r \in 1..Len(cs[i].parts) : cs[i].parts[r].kind = "para"}}]

\* C20: a critical paragraph that is no header never triggers a split, it is
\* appended whole to the buffer even beyond max_words; a forced split happens
\* exactly when the buffer is non-empty, buffer plus paragraph exceed
\* max_words and the paragraph is not critical; the split emits the buffer as
\* it is and the paragraph starts the next buffer whole, so no paragraph lies
\* in two chunks.
C20_SplitOnParagraphBoundary ==
    [][AtBody =>
          LET para == Pages[pi].paras[ki]
              this == ParaBuffer(para, pi, ki)
              critical == _is_critical_content(this)
              n == Len(chunks)
              split == Len(chunks') = n + 1
          IN  /\ Len(chunks') \in {n, n + 1}
              /\ SubSeq(chunks', 1, n) = chunks
              /\ split <=> (/\ Truthy(buffer)
                            /\ buffer.w + para.w > config.max_words
                            /\ ~critical)
              /\ critical => /\ ~split
                             /\ buffer'.parts = buffer.parts \o this.parts
                             /\ buffer'.w = buffer.w + para.w
              /\ split => /\ chunks'[n + 1].parts = buffer.parts
                          /\ chunks'[n + 1].word_count = buffer.w
                          /\ buffer'.parts[Len(buffer'.parts)] = this.parts[1]
                          /\ \A q \in 1..(Len(buffer'.parts) - 1) :
                                buffer'.parts[q].kind = "overlap"
              /\ ~split => buffer'.parts = buffer.parts \o this.parts
              /\ \A i, j \in 1..Len(chunks') :
                    i # j => WholeParas(chunks')[i] \cap WholeParas(chunks')[j] = {}
      ]_vars

C20_Witness ==
    /\ pc = "para"
    /\ ki > 1
    /\ Len(chunks) > 0
    /\ Len(buffer.parts) >= 2
    /\ buffer.parts[1].kind = "overlap"
    /\ buffer.parts[Len(buffer.parts)] = ParaBuffer(Pages[pi].paras[ki - 1], pi, ki - 1).parts[1]
    /\ _is_critical_content(ParaBuffer(Pages[pi].paras[ki - 1], pi, ki - 1))
    /\ buffer.w > config.max_words

\* C21 as stated: after every forced split the new buffer is the last
\* overlap_words words of the flushed chunk (all of its words when it has no
\* more than that) followed by the paragraph that caused the split.
C21_OverlapForEveryLength ==
    [][(AtBody /\ Len(chunks') = Len(chunks) + 1) =>
          LET this == ParaBuffer(Pages[pi].paras[ki], pi, ki)
              n == Min(config.overlap_words, buffer.w)
          IN  /\ buffer'.w = n + this.w
              /\ buffer'.text = TailWords(buffer.text, n) \o this.text]_vars

\* C21 amended: after a forced split of a chunk of more than overlap_words
\* words the new buffer is its last overlap_words words (all of its words
\* when overlap_words is 0) followed by the paragraph that caused the split;
\* after a forced split of a chunk of overlap_words words or fewer the new
\* buffer is that paragraph alone.
C21_OverlapOfLongerChunks ==
    [][(AtBody /\ Len(chunks') = Len(chunks) + 1) =>
          LET this == ParaBuffer(Pages[pi].paras[ki], pi, ki)
              n == IF buffer.w <= config.overlap_words THEN 0
                   ELSE IF config.overlap_words = 0 THEN buffer.w
                   ELSE config.overlap_words
          IN  /\ buffer'.w = n + this.w
              /\ buffer'.text = TailWords(buffer.text, n) \o this.text
              /\ chunks'[Len(chunks')].text = buffer.text]_vars

C21_Witness ==
    /\ pc = "para"
    /\ Len(chunks) = 2
    /\ chunks[1].word_count <= config.overlap_words
    /\ chunks[2].word_count > config.overlap_words
    /\ chunks[1].page_number = pi /\ chunks[2].page_number = pi
    /\ config.overlap_words > 0
    /\ Len(buffer.parts) = 2
    /\ buffer.parts[1].kind = "overlap"
    /\ buffer.w = config.overlap_words + Pages[pi].paras[ki - 1].w
    /\ buffer.text = TailWords(chunks[2].text, config.overlap_words)
                        \o ParaText(Pages[pi].paras[ki - 1], pi, ki - 1)

\* C22: after the linking pass a chunk has a parent exactly when it is no
\* header chunk, has a section_id and a header chunk of its section precedes
\* it; the parent is then the most recent such header chunk, which has a
\* smaller chunk_id.  Header chunks, chunks without a section_id and chunks
\* before the first header chunk of their section have none.
C22_ParentIsRecentHeader ==
    pc = "chunked" =>
        \A i \in 1..Len(chunks) :
            LET c == chunks[i]
                hs == {j \in 1..(i - 1) : /\ chunks[j].section_id = c.section_id
                                          /\ chunks[j].chunk_type = "header"}
            IN  IF c.chunk_type # "header" /\ c.section_id # None /\ hs # {}
                THEN \E j \in hs :
                        /\ \A h \in hs : h <= j
                        /\ c.parent_chunk_id = chunks[j].chunk_id
                        /\ chunks[j].chunk_id < c.chunk_id
                ELSE c.parent_chunk_id = None

C22_Witness ==
    /\ pc = "chunked"
    /\ \E i \in 1..Len(chunks) :
          /\ chunks[i].chunk_type # "header"
          /\ chunks[i].section_id # None
          /\ Cardinality({j \in 1..(i - 1) : /\ chunks[j].section_id = chunks[i].section_id
                                             /\ chunks[j].chunk_type = "header"}) >= 2
          /\ chunks[i].parent_chunk_id = chunks[i - 1].chunk_id

\* a is b with some of its segments left out
RECURSIVE IsSubseq(_, _)
IsSubseq(a, b) ==
    IF a = <<>> THEN TRUE
    ELSE IF b = <<>> THEN FALSE
    ELSE IF Head(a).id = Head(b).id THEN IsSubseq(Tail(a), Tail(b))
    ELSE IsSubseq(a, Tail(b))

\* C23: the sentences _extractive_summarize emits are input sentences in
\* their original relative order, also when the text repeats a sentence.
C23_SummaryIsSubsequence ==
    pc = "returned" => IsSubseq(ret, arg.text)

C25_OneFactPerCriticalChunk ==
    pc = "done" =>
        LET facts == report.critical_facts_summary
            idx == {i \in 1..Len(self_chunks) :
                       \/ self_chunks[i].chunk_type = "critical"
                       \/ self_chunks[i].contains_risks
                       \/ self_chunks[i].contains_exceptions}
            at(k) == CHOOSE i \in idx : Cardinality({j \in idx : j < i}) = k - 1
        IN  /\ Len(facts) = Cardinality(idx)
            /\ \A k \in 1..Len(facts) :
                  LET c == self_chunks[at(k)]
                  IN  /\ facts[k].chunk_id = c.chunk_id
                      /\ facts[k].page = c.page_number
                      /\ facts[k].section = (IF c.section_id # None THEN c.section_id
                                             ELSE "unknown")
                      /\ facts[k].details.has_exception = c.contains_exceptions
                      /\ facts[k].details.has_risk = c.contains_risks
                      /\ facts[k].details.has_contradiction = c.contains_contradictions
                      /\ facts[k].details.has_numbers = c.contains_numbers
                      /\ facts[k].summary = chunk_summaries[at(k)].summary_text
                      /\ chunk_summaries[at(k)].source_chunks = <<c.chunk_id>>

C25_Witness ==
    /\ pc = "done"
    /\ Len(self_chunks) >= 2
    /\ Len(report.critical_facts_summary) = 1
    /\ \E i \in 1..Len(self_chunks) :
          /\ self_chunks[i].contains_contradictions
          /\ self_chunks[i].chunk_id # report.critical_facts_summary[1].chunk_id
    /\ \E i \in 1..Len(self_chunks) :
          /\ self_chunks[i].contains_exceptions
          /\ self_chunks[i].chunk_id = report.critical_facts_summary[1].chunk_id
          /\ chunk_summaries[i].summary_text = report.critical_facts_summary[1].summary

\* C26: the section groups partition the chunk summaries: each chunk summary
\* is a member of exactly one group, keyed by the section_id of its chunk or
\* "uncategorized"; there are as many section summaries as distinct keys, and
\* the source_chunks of a section summary are exactly the chunk ids of its
\* members.
C26_SectionsPartitionChunks ==
    Sectioned =>
        LET key(i) == IF self_chunks[i].section_id # None THEN self_chunks[i].section_id
                      ELSE "uncategorized"
            all == 1..Len(self_chunks)
            secs == 1..Len(section_summaries)
            listed(k) == {section_summaries[k].source_chunks[q] :
                             q \in 1..Len(section_summaries[k].source_chunks)}
        IN  /\ Len(chunk_summaries) = Len(self_chunks)
            /\ Len(section_summaries) = Cardinality({key(i) : i \in all})
            /\ \A i \in all :
                  /\ chunk_summaries[i].source_chunks = <<self_chunks[i].chunk_id>>
                  /\ Cardinality({k \in secs : self_chunks[i].chunk_id \in listed(k)}) = 1
            /\ \A k \in secs :
                  /\ listed(k) = {self_chunks[i].chunk_id :
                                     i \in {j \in all : key(j) = section_summaries[k].section_id}}
                  /\ Len(section_summaries[k].source_chunks) = Cardinality(listed(k))

C26_Witness ==
    /\ Sectioned
    /\ Len(section_summaries) = 2
    /\ \E k \in 1..2 : /\ section_summaries[k].section_id = "uncategorized"
                       /\ Len(section_summaries[k].source_chunks) = 1
    /\ \E k \in 1..2 : /\ section_summaries[k].section_id = "1"
                       /\ Len(section_summaries[k].source_chunks) = 2

\* C27: every paragraph that is no header lies whole in the text of at least
\* one emitted chunk, whatever the length of the buffer that held it when a
\* header arrived or its page ended.
C27_NoParagraphDropped ==
    pc = "chunked" =>
        \A p \in 1..Len(Pages) : \A q \in 1..Len(Pages[p].paras) :
            _classify_header(Pages[p].paras[q])[1] = 0 =>
                \E i \in 1..Len(chunks) : <<p, q>> \in WholeParas(chunks)[i]

\* C28: the section_id of a chunk is the id captured from the most recent
\* header with an id at or before the paragraph the chunk starts with (None
\* when there is none); a buffer flushed because a section header arrived
\* carries the id in effect while it was accumulated, not the id of that
\* header.
C28_SectionOfOwnText ==
    pc \in {"page", "para", "chunked"} =>
        \A i \in 1..Len(chunks) :
            LET first == chunks[i].parts[1]
                Upto(p, q) == p < first.page \/ (p = first.page /\ q <= first.idx)
                hs == {pq \in UNION {{<<p, q>> : q \in 1..Len(Pages[p].paras)} :
                                        p \in 1..Len(Pages)} :
                          /\ Upto(pq[1], pq[2])
                          /\ _classify_header(Pages[pq[1]].paras[pq[2]])[1] > 0
                          /\ _classify_header(Pages[pq[1]].paras[pq[2]])[2] # None}
                last == CHOOSE a \in hs : \A b \in hs :
                            b[1] < a[1] \/ (b[1] = a[1] /\ b[2] <= a[2])
            IN  first.kind = "para" =>
                    chunks[i].section_id =
                        (IF hs = {} THEN None
                         ELSE _classify_header(Pages[last[1]].paras[last[2]])[2])

\* C29: once the chunks are summarized, chunk ids are contiguous from 0 in
\* list order and chunk_summaries has one summary for each chunk, at the same
\* position, with that chunk's id as its only source; the chunk-level items
\* and the critical facts of the report pair each chunk with its own summary.
C29_SummariesPairedWithChunks ==
    Summarized =>
        /\ Len(chunk_summaries) = Len(self_chunks)
        /\ \A i \in 1..Len(self_chunks) :
              /\ self_chunks[i].chunk_id = i - 1
              /\ chunk_summaries[i].source_chunks = <<self_chunks[i].chunk_id>>
              /\ chunk_summaries[i].original_words = self_chunks[i].word_count
        /\ pc = "done" =>
              /\ Len(report.levels[2].items) = Len(self_chunks)
              /\ \A i \in 1..Len(self_chunks) :
                    /\ report.levels[2].items[i].chunk_id = self_chunks[i].chunk_id
                    /\ report.levels[2].items[i].page_number = self_chunks[i].page_number

C29_Witness ==
    /\ pc = "done"
    /\ Len(self_chunks) = 3
    /\ self_chunks[3].chunk_id = 2
    /\ chunk_summaries[3].source_chunks = <<2>>
    /\ chunk_summaries[1].summary_text # chunk_summaries[3].summary_text
    /\ Len(report.critical_facts_summary) > 0

\* C30: every confidence summarize_chunk returns, for a chunk, a section or
\* the document, is at least 0.3; so every chunk that counts as critical
\* counts as preserved and the critical_preservation_rate of every report
\* is 1.0.
C30_ConfidenceAtLeast03 ==
    /\ Summarized =>
          \A i \in 1..Len(chunk_summaries) : 10 * chunk_summaries[i].confidence >= 3 * ConfOne
    /\ Sectioned =>
          \A k \in 1..Len(section_summaries) :
              10 * section_summaries[k].confidence >= 3 * ConfOne
    /\ pc = "done" =>
          /\ report.critical_preservation_rate.num = report.critical_preservation_rate.den
          /\ report.critical_preservation_rate.den > 0

C30_Witness ==
    /\ pc = "done"
    /\ \E i \in 1..Len(self_chunks) :
          /\ self_chunks[i].contains_exceptions
          /\ 10 * chunk_summaries[i].confidence = 3 * ConfOne
    /\ \E i \in 1..Len(self_chunks) :
          /\ self_chunks[i].contains_contradictions
          /\ chunk_summaries[i].summary_words < chunk_summaries[i].original_words
    /\ report.critical_preservation_rate.den >= 2

====
